---- MODULE Spec2Model ----
(***************************************************************************)
(* A model of the Chronos data pipeline of autogluon.timeseries:           *)
(*   - ChronosInferenceDataset (ragged index + last-window extraction),    *)
(*   - the int32 offset index of ChronosInferenceDataset at any size,      *)
(*   - PseudoShuffledIterableDataset / ChronosFineTuningDataset.shuffle,   *)
(*   - ChronosInferenceDataLoader with timeout_callback inside _predict,   *)
(*   - ChronosFineTuningDataset window sampling (training / validation).   *)
(*   - the training stream of ChronosFineTuningDataset and its consumer,   *)
(*   - argument validation of the dataset constructors and of shuffle,     *)
(*   - ChronosModel._fit: the fine-tuning loop with TimeLimitCallback and  *)
(*     EvaluateAndSaveFinalStepCallback, and the checkpoint selection,     *)
(*   - ChronosModel: the context length handed to the datasets,            *)
(*   - PseudoShuffledIterableDataset over the unbounded training stream,   *)
(*   - ChronosModel after _fit: load, score_and_cache_oof and predict.     *)
(* Every component has its own specification; the variables of the other   *)
(* components stay at their idle values.                                   *)
(***************************************************************************)
EXTENDS Integers, Sequences, FiniteSets, TLC

VARIABLES
    \* ChronosInferenceDataset
    target_df,        \* the series collection handed to the constructor
    context_length,   \* self.context_length
    target_array,     \* self.target_array (flattened observations)
    indptr,           \* self.indptr (cumulative offsets)
    item_idx,         \* index of the last __getitem__ call (Optional)
    item,             \* value returned by the last __getitem__ call
    \* ChronosInferenceDataset: the offset index of a collection of any size
    sizes,            \* target_df.num_timesteps_per_item().values
    ix_indptr,        \* self.indptr built from them
    ix_read,          \* (start_idx, end_idx) read by the last __getitem__ (Optional)
    \* ChronosFineTuningDataset.shuffle / PseudoShuffledIterableDataset
    source,              \* the elements the base dataset produces, in order
    via,                 \* "shuffle": dataset.shuffle(b); "constructor": the wrapper built directly
    shuffle_arg,         \* the shuffle_buffer_size argument (Optional)
    wrapped,             \* TRUE iff the iterated object is the shuffling wrapper
    shuffle_buffer_size, \* self.shuffle_buffer_size of the wrapper
    shuffle_buffer,      \* the local list shuffle_buffer of __iter__
    src_pos,             \* number of elements read from the base dataset
    emitted,             \* the elements yielded so far, in order
    sh_pc,               \* position of the generator
    \* PseudoShuffledIterableDataset over the unbounded training stream
    ub_size,         \* self.shuffle_buffer_size
    ub_buffer,       \* shuffle_buffer: TRUE marks the element followed, FALSE any other
    ub_followed,     \* "unread", "buffered" or "emitted": where the followed element is
    ub_overtaken,    \* elements read after it and emitted while it was buffered (capped)
    ub_pc,           \* "loop", "pop"
    \* ChronosModel._predict: ChronosInferenceDataLoader + timeout_callback
    now,          \* time.monotonic()
    seconds,      \* the time_limit captured by timeout_callback (Optional)
    start_time,   \* start_time captured by timeout_callback
    num_items,    \* len(dataset)
    batch_size,   \* self.batch_size
    next_idx,     \* first dataset index the underlying loader has not fetched
    batch,        \* the batch last yielded (dataset indices, in order)
    yielded,      \* number of batches yielded to the consumer
    yield_log,    \* the time at which each batch was yielded
    batch_means,  \* _predict's list of per-batch model outputs
    check_log,    \* one entry per callback() call: its time and outcome
    forecast,     \* what _predict returned (Optional)
    ld_pc,        \* position of _predict / the loader generator
    \* ChronosFineTuningDataset: window sampling
    ft_lengths,         \* gluonts_dataset: the length of each series, in order
    ft_context_length,  \* self.context_length
    prediction_length,  \* self.prediction_length
    mode,               \* self.mode
    iter_no,            \* number of __iter__ calls made on the dataset object
    ft_pos,             \* index of the next series of the current pass
    passes,             \* completed passes of _infinite_iterable
    visits,             \* series handed to the instance splitter so far
    sampler_n,          \* ExpectedNumInstanceSampler.n
    sampler_total,      \* ExpectedNumInstanceSampler.total_length
    windows,            \* the windows yielded by the current iteration
    sm_pc,              \* position of the iteration
    num_idle_transforms,  \* consecutive series the splitter got no window from
    \* ChronosFineTuningDataset: the training stream and its consumer
    pending,   \* windows the splitter cut from the current series, not yet yielded
    pulled,    \* the pass in which the consumer received its last window (Optional)
    \* construction arguments of the datasets and their validation
    cf_kind,               \* which object is built: "inference", "finetuning", "shuffle"
    cf_context_length,     \* the context_length argument
    cf_prediction_length,  \* the prediction_length argument
    cf_mode,               \* the mode argument
    cf_buffer_size,        \* the shuffle_buffer_size argument (Optional)
    cf_pc,                 \* "call", "constructed", "assertion_error", "produced", "iter_error"
    \* ChronosModel._fit: the fine-tuning loop and its callbacks
    time_limit,            \* _fit's time_limit (Optional)
    val_data,              \* TRUE iff val_data is not None
    eval_during_fine_tune, \* the hyperparameter of that name
    max_steps,             \* state.max_steps (fine_tune_steps)
    eval_steps,            \* logging_steps = save_steps = eval_steps of the trainer arguments
    clock,                 \* time.monotonic()
    callbacks,             \* the callbacks list handed to the Trainer
    cb_created_at,         \* when TimeLimitCallback was constructed (Optional)
    cb_start_time,         \* TimeLimitCallback.start_time (Optional)
    train_began_at,        \* when trainer.train() entered its loop (Optional)
    global_step,           \* state.global_step
    should_log,            \* control.should_log
    should_evaluate,       \* control.should_evaluate
    should_save,           \* control.should_save
    should_training_stop,  \* control.should_training_stop
    log_history,           \* the eval_loss entries of trainer.state.log_history
    last_saved,            \* the step of the last checkpoint the trainer saved (Optional)
    zero_shot_eval_loss,   \* eval_loss before training (Optional)
    best_train_eval_loss,  \* eval_loss _fit compares with it (Optional)
    tr_pc,                 \* position inside _fit / trainer.train()
    \* ChronosModel: what _fit leaves behind
    fine_tuned_ckpt,       \* TRUE iff path / "fine-tuned-ckpt" exists
    model_pipeline,        \* self.model_pipeline: "pretrained", "fine_tuned" or "unloaded"
    model_path,            \* self.model_path: "pretrained" or "fine-tuned-ckpt"
    self_time_limit,       \* self.time_limit, the inference time budget (Optional)
    \* ChronosModel: the context length handed to the datasets
    hp_context_length,    \* hyperparameters.get("context_length") (Optional)
    self_context_length,  \* self.context_length (Optional)
    cx_longest,           \* data.num_timesteps_per_item().max() of the last call
    cx_path,              \* "fit" or "predict": who asked last
    cx_handed,            \* the context_length handed to the dataset (Optional)
    cx_pc                 \* "new", "constructed"

dsVars == <<target_df, context_length, target_array, indptr, item_idx, item>>

ixVars == <<sizes, ix_indptr, ix_read>>

shVars == <<source, via, shuffle_arg, wrapped, shuffle_buffer_size, shuffle_buffer,
            src_pos, emitted, sh_pc>>

ubVars == <<ub_size, ub_buffer, ub_followed, ub_overtaken, ub_pc>>

ldVars == <<now, seconds, start_time, num_items, batch_size, next_idx, batch,
            yielded, yield_log, batch_means, check_log, forecast, ld_pc>>

smVars == <<ft_lengths, ft_context_length, prediction_length, mode, iter_no,
            ft_pos, passes, visits, sampler_n, sampler_total, windows, sm_pc,
            num_idle_transforms>>

stVars == <<pending, pulled>>

cfVars == <<cf_kind, cf_context_length, cf_prediction_length, cf_mode,
            cf_buffer_size, cf_pc>>

\* what _fit is called with.
fitArgs == <<time_limit, val_data, eval_during_fine_tune, max_steps, eval_steps>>

\* TrainerControl
control == <<should_log, should_evaluate, should_save, should_training_stop>>

\* what _fit leaves behind on the model object and on disk
fitOut == <<fine_tuned_ckpt, model_pipeline, model_path, self_time_limit>>

trVars == <<fitArgs, clock, callbacks, cb_created_at, cb_start_time,
            train_began_at, global_step, control, log_history, last_saved,
            zero_shot_eval_loss, best_train_eval_loss, tr_pc, fitOut>>

cxVars == <<hp_context_length, self_context_length, cx_longest, cx_path,
            cx_handed, cx_pc>>

notIxVars == <<dsVars, shVars, ldVars, smVars, stVars, cfVars, trVars, cxVars,
            ubVars>>

notUbVars == <<dsVars, shVars, ldVars, smVars, stVars, cfVars, trVars, cxVars,
               ixVars>>

vars == <<dsVars, shVars, ldVars, smVars, stVars, cfVars, trVars, cxVars,
            ixVars, ubVars>>

notDsVars == <<shVars, ldVars, smVars, stVars, cfVars, trVars, cxVars,
            ixVars, ubVars>>

notShVars == <<dsVars, ldVars, smVars, stVars, cfVars, trVars, cxVars,
            ixVars, ubVars>>

notLdVars == <<dsVars, shVars, smVars, stVars, cfVars, trVars, cxVars,
            ixVars, ubVars>>

notSmVars == <<dsVars, shVars, ldVars, stVars, cfVars, trVars, cxVars,
            ixVars, ubVars>>

\* the training stream runs on the sampler's variables and its own.
notStVars == <<dsVars, shVars, ldVars, cfVars, trVars, cxVars, ixVars,
            ubVars>>

notCfVars == <<dsVars, shVars, ldVars, smVars, stVars, trVars, cxVars,
            ixVars, ubVars>>

notTrVars == <<dsVars, shVars, ldVars, smVars, stVars, cfVars, cxVars,
            ixVars, ubVars>>

notCxVars == <<dsVars, shVars, ldVars, smVars, stVars, cfVars, trVars,
            ixVars, ubVars>>

(***************************************************************************)
(* Python values                                                           *)
(***************************************************************************)
\* Optional[x]: None is the empty set, a value x is {x}.
None == {}

Some(x) == {x}

Get(o) == CHOOSE x \in o : TRUE

\* 0-based indexing into a sequence, as Python / numpy index.
At(s, i) == s[i + 1]

\* s[a:b] for 0 <= a, b (numpy / list slice with non-negative bounds).
Slice(s, a, b) == SubSeq(s, a + 1, IF b > Len(s) THEN Len(s) ELSE b)

\* numpy.full(shape=(n,), fill_value=v)
Full(n, v) == [i \in 1..n |-> v]

Min(a, b) == IF a < b THEN a ELSE b

Max(a, b) == IF a > b THEN a ELSE b

\* The missing-value sentinel numpy.nan; observations are numbers >= 0.
NaN == -1

(***************************************************************************)
(* Bounds of the model                                                     *)
(***************************************************************************)
MaxSeries == 2

MaxLen == 3

MaxContext == 4

MaxSource == 4

MaxBuffer == 3

MaxItems == 4

MaxBatch == 2

MaxLimit == 2

MaxTime == 4

MaxFtSeries == 2

MaxFtLen == 3

MaxPast == 2

MaxPred == 2

MaxIters == 2

MaxVisits == 2

MaxPasses == 1

\* constructor arguments are drawn from (0 - MaxArg)..MaxArg
MaxArg == 2

\* fine-tuning: steps, clock values and eval_loss values
MaxSteps == 2

\* the period of the log / evaluate / save schedule
MaxEvalSteps == 3

MaxClock == 3

MaxBigSeries == 3

\* env.max_idle_transforms of GluonTS (100 unless configured otherwise)
MaxIdleTransforms == 1

MaxOvertaken == 2

MaxLoss == 2

Observations == {1, 2}

SeqsUpTo(S, n) == UNION {[1..k -> S] : k \in 0..n}

Elements == {"a", "b", "c"}

SeriesCollections == SeqsUpTo(SeqsUpTo(Observations, MaxLen), MaxSeries)

(***************************************************************************)
(* ChronosInferenceDataset                                                 *)
(***************************************************************************)
RECURSIVE Concat(_)
\* target_df[target_column].to_numpy(): all series, in input order.
Concat(df) == IF df = <<>> THEN <<>> ELSE Head(df) \o Concat(Tail(df))

\* target_df.num_timesteps_per_item().values
NumTimestepsPerItem(df) == [i \in 1..Len(df) |-> Len(df[i])]

\* the largest and the smallest np.int32
Int32Max == 2147483647

Int32Min == 0 - Int32Max - 1

\* a + b as .astype(np.int32) stores it, for an int32 a and 0 <= b <= Int32Max:
\* the sum reduced modulo 2^32 into Int32Min..Int32Max. (The code sums in
\* int64 and narrows afterwards; narrowing commutes with the addition.)
AddAsInt32(a, b) ==
    IF a >= 0 /\ b > Int32Max - a THEN (a + Int32Min) + (b + Int32Min)
    ELSE a + b

RECURSIVE CumSum(_, _)
\* num_timesteps_per_item().values.cumsum(), each entry as narrowed to int32
CumSum(n, acc) ==
    IF n = <<>> THEN <<>>
    ELSE <<AddAsInt32(acc, Head(n))>> \o CumSum(Tail(n), AddAsInt32(acc, Head(n)))

\* np.append(0, cum_sizes).astype(np.int32)
BuildIndptr(n) == <<0>> \o CumSum(n, 0)

\* __len__
DatasetLen == Len(indptr) - 1

\* a[-self.context_length:] : the last min(len(a), W) entries (W > 0).
LastSlice(a, W) == Slice(a, IF Len(a) - W > 0 THEN Len(a) - W ELSE 0, Len(a))

\* Faulty variant of _get_context: a[:W], the head instead of the tail.
GetContextFrontSlice(a, W) ==
    LET t == Slice(a, 0, W)
        pad_size == W - Len(t)
    IN  IF pad_size > 0 THEN Full(pad_size, NaN) \o t ELSE t

\* _get_context: truncate to the tail, then left-pad with pad_value.
GetContext(a, W) ==
    LET t == LastSlice(a, W)
        pad_size == W - Len(t)
    IN  IF pad_size > 0 THEN Full(pad_size, NaN) \o t ELSE t

\* __getitem__ as a function of the stored arrays.
GetItemValue(idx) ==
    GetContext(Slice(target_array, At(indptr, idx), At(indptr, idx + 1)),
               context_length)

\* ChronosInferenceDataset.__init__ (the assert admits only W > 0).
DatasetInit ==
    /\ target_df \in SeriesCollections
    /\ context_length \in 1..MaxContext
    /\ target_array = Concat(target_df)
    /\ indptr = BuildIndptr(NumTimestepsPerItem(target_df))
    /\ item_idx = None
    /\ item = None

\* dataset[idx], idx in range(len(dataset)) as the data loader indexes it.
GetItem(idx) ==
    /\ item_idx' = Some(idx)
    /\ item' = Some(GetItemValue(idx))
    /\ UNCHANGED <<target_df, context_length, target_array, indptr>>
    /\ UNCHANGED notDsVars

DatasetNext == \E idx \in 0..(DatasetLen - 1) : GetItem(idx)

DatasetIdle ==
    /\ target_df = <<>>
    /\ context_length = 1
    /\ target_array = <<>>
    /\ indptr = <<0>>
    /\ item_idx = None
    /\ item = None

(***************************************************************************)
(* ChronosInferenceDataset: the offset index of a collection of any size   *)
(***************************************************************************)
\* series lengths up to the largest one an int32 can count
BigSizes == {0, 1, Int32Max \div 2 + 1, Int32Max}

\* __len__
IxLen == Len(ix_indptr) - 1

\* ChronosInferenceDataset.__init__, the series given by their lengths.
IndexInit ==
    /\ sizes \in SeqsUpTo(BigSizes, MaxBigSeries)
    /\ ix_indptr = BuildIndptr(sizes)
    /\ ix_read = None

\* __getitem__: start_idx = self.indptr[idx]; end_idx = self.indptr[idx + 1]
IxGetItem(idx) ==
    /\ ix_read' = Some(<<At(ix_indptr, idx), At(ix_indptr, idx + 1)>>)
    /\ UNCHANGED <<sizes, ix_indptr>>
    /\ UNCHANGED notIxVars

IndexNext == \E idx \in 0..(IxLen - 1) : IxGetItem(idx)

IndexIdle ==
    /\ sizes = <<>>
    /\ ix_indptr = <<0>>
    /\ ix_read = None

(***************************************************************************)
(* ChronosFineTuningDataset.shuffle and PseudoShuffledIterableDataset      *)
(***************************************************************************)
\* Faulty variant of pop(idx): pop() drops the last entry whatever idx is.
PopLast(buf, idx) == SubSeq(buf, 1, Len(buf) - 1)

\* Faulty variant of the index: always the newest entry of the buffer.
RandIntLast(n) == {n - 1}

\* torch.randint(len(shuffle_buffer), size=()): any index of the buffer.
RandInt(n) == 0..(n - 1)

\* Faulty variant of pop(idx): shuffle_buffer[idx], the entry is read but
\* stays in the list.
PopPeek(buf, idx) == buf

\* list.pop(idx): the list without its (0-based) entry idx.
PopAt(buf, idx) == SubSeq(buf, 1, idx) \o SubSeq(buf, idx + 2, Len(buf))

\* Faulty variant of shuffle: only None, not 0, returns self.
ShuffleNoneOnly(b) ==
    IF b = None THEN [wrapped |-> FALSE, size |-> 0]
    ELSE [wrapped |-> TRUE, size |-> Get(b)]

\* shuffle(shuffle_buffer_size): self when the size is falsy (None or 0),
\* otherwise the wrapper with that size.
Shuffle(b) ==
    IF b = None \/ Get(b) = 0 THEN [wrapped |-> FALSE, size |-> 0]
    ELSE [wrapped |-> TRUE, size |-> Get(b)]

ShuffleStart ==
    /\ source \in SeqsUpTo(Elements, MaxSource)
    /\ shuffle_buffer = <<>>
    /\ src_pos = 0
    /\ emitted = <<>>
    /\ sh_pc = "loop"

\* dataset.shuffle(b) with the assert's b is None or b >= 0.
InitViaShuffle ==
    /\ via = "shuffle"
    /\ shuffle_arg \in {None} \cup {Some(b) : b \in 0..MaxBuffer}
    /\ wrapped = Shuffle(shuffle_arg).wrapped
    /\ shuffle_buffer_size = Shuffle(shuffle_arg).size
    /\ ShuffleStart

\* PseudoShuffledIterableDataset(base_dataset, B) built directly.
InitViaConstructor ==
    /\ via = "constructor"
    /\ shuffle_arg \in {Some(b) : b \in 0..MaxBuffer}
    /\ wrapped = TRUE
    /\ shuffle_buffer_size = Get(shuffle_arg)
    /\ ShuffleStart

ShuffleInit == InitViaShuffle \/ InitViaConstructor

\* Faulty variant: an element is emitted only once the buffer holds more
\* than shuffle_buffer_size elements.
BufferOverfull(len, size) == len > size

\* len(shuffle_buffer) >= self.shuffle_buffer_size
BufferFull(len, size) == len >= size

\* for element in self.base_dataset: shuffle_buffer.append(element)
ShAppend ==
    /\ wrapped
    /\ sh_pc = "loop"
    /\ src_pos < Len(source)
    /\ shuffle_buffer' = Append(shuffle_buffer, At(source, src_pos))
    /\ src_pos' = src_pos + 1
    /\ sh_pc' = IF BufferFull(Len(shuffle_buffer'), shuffle_buffer_size)
                THEN "pop" ELSE "loop"
    /\ UNCHANGED <<source, via, shuffle_arg, wrapped, shuffle_buffer_size, emitted>>
    /\ UNCHANGED notShVars

\* idx = torch.randint(len(shuffle_buffer)); yield shuffle_buffer.pop(idx)
ShPop ==
    /\ wrapped
    /\ sh_pc = "pop"
    /\ \E idx \in RandInt(Len(shuffle_buffer)) :
          /\ emitted' = Append(emitted, At(shuffle_buffer, idx))
          /\ shuffle_buffer' = PopAt(shuffle_buffer, idx)
    /\ sh_pc' = "loop"
    /\ UNCHANGED <<source, via, shuffle_arg, wrapped, shuffle_buffer_size, src_pos>>
    /\ UNCHANGED notShVars

\* while shuffle_buffer: yield shuffle_buffer.pop(randint(len))
ShDrain ==
    /\ wrapped
    /\ sh_pc \in {"loop", "drain"}
    /\ src_pos = Len(source)
    /\ shuffle_buffer # <<>>
    /\ \E idx \in RandInt(Len(shuffle_buffer)) :
          /\ emitted' = Append(emitted, At(shuffle_buffer, idx))
          /\ shuffle_buffer' = PopAt(shuffle_buffer, idx)
    /\ sh_pc' = "drain"
    /\ UNCHANGED <<source, via, shuffle_arg, wrapped, shuffle_buffer_size, src_pos>>
    /\ UNCHANGED notShVars

\* the source is exhausted and the buffer is empty: the generator returns.
ShStop ==
    /\ wrapped
    /\ sh_pc \in {"loop", "drain"}
    /\ src_pos = Len(source)
    /\ shuffle_buffer = <<>>
    /\ sh_pc' = "done"
    /\ UNCHANGED <<source, via, shuffle_arg, wrapped, shuffle_buffer_size,
                   shuffle_buffer, src_pos, emitted>>
    /\ UNCHANGED notShVars

\* shuffle returned self: the consumer iterates the base dataset itself.
PassThroughYield ==
    /\ ~wrapped
    /\ sh_pc = "loop"
    /\ src_pos < Len(source)
    /\ emitted' = Append(emitted, At(source, src_pos))
    /\ src_pos' = src_pos + 1
    /\ UNCHANGED <<source, via, shuffle_arg, wrapped, shuffle_buffer_size,
                   shuffle_buffer, sh_pc>>
    /\ UNCHANGED notShVars

PassThroughStop ==
    /\ ~wrapped
    /\ sh_pc = "loop"
    /\ src_pos = Len(source)
    /\ sh_pc' = "done"
    /\ UNCHANGED <<source, via, shuffle_arg, wrapped, shuffle_buffer_size,
                   shuffle_buffer, src_pos, emitted>>
    /\ UNCHANGED notShVars

ShuffleNext ==
    \/ ShAppend
    \/ ShPop
    \/ ShDrain
    \/ ShStop
    \/ PassThroughYield
    \/ PassThroughStop

ShuffleIdle ==
    /\ source = <<>>
    /\ via = "idle"
    /\ shuffle_arg = None
    /\ wrapped = FALSE
    /\ shuffle_buffer_size = 0
    /\ shuffle_buffer = <<>>
    /\ src_pos = 0
    /\ emitted = <<>>
    /\ sh_pc = "idle"

(***************************************************************************)
(* PseudoShuffledIterableDataset over the training stream, a source that   *)
(* never ends (_infinite_iterable). One element of the source is followed  *)
(* from the moment it is read; the others are not told apart.              *)
(***************************************************************************)
\* ChronosFineTuningDataset(mode="training").shuffle(B) with B >= 1.
UnboundedInit ==
    /\ ub_size \in 1..MaxBuffer
    /\ ub_buffer = <<>>
    /\ ub_followed = "unread"
    /\ ub_overtaken = 0
    /\ ub_pc = "loop"

\* for element in self.base_dataset: shuffle_buffer.append(element); the
\* source always has a next element. Any element read may be the one
\* followed, as long as none is followed yet.
UbAppend ==
    /\ ub_pc = "loop"
    /\ \E mark \in (IF ub_followed = "unread" THEN BOOLEAN ELSE {FALSE}) :
          /\ ub_buffer' = Append(ub_buffer, mark)
          /\ ub_followed' = IF mark THEN "buffered" ELSE ub_followed
    /\ ub_pc' = IF BufferFull(Len(ub_buffer'), ub_size) THEN "pop" ELSE "loop"
    /\ UNCHANGED <<ub_size, ub_overtaken>>
    /\ UNCHANGED notUbVars

\* the position of the followed element in the buffer; what stands behind
\* it was read after it.
FollowedIdx(buf) == CHOOSE i \in 0..(Len(buf) - 1) : At(buf, i)

\* idx = torch.randint(len(shuffle_buffer)); yield shuffle_buffer.pop(idx)
UbPop ==
    /\ ub_pc = "pop"
    /\ \E idx \in RandInt(Len(ub_buffer)) :
          /\ ub_buffer' = PopAt(ub_buffer, idx)
          /\ ub_followed' = IF At(ub_buffer, idx) THEN "emitted" ELSE ub_followed
          /\ ub_overtaken' =
                IF ub_followed = "buffered" /\ idx > FollowedIdx(ub_buffer)
                THEN Min(ub_overtaken + 1, MaxOvertaken) ELSE ub_overtaken
    /\ ub_pc' = "loop"
    /\ UNCHANGED ub_size
    /\ UNCHANGED notUbVars

UnboundedNext == UbAppend \/ UbPop

\* the random index is the one of the followed element / of another one.
UbPopFollowed == UbPop /\ ub_followed = "buffered" /\ ub_followed' = "emitted"

UbPopOther == UbPop /\ ub_followed = "buffered" /\ ub_followed' = "buffered"

UnboundedIdle ==
    /\ ub_size = 0
    /\ ub_buffer = <<>>
    /\ ub_followed = "unread"
    /\ ub_overtaken = 0
    /\ ub_pc = "idle"

(***************************************************************************)
(* ChronosModel._predict: the batch loop over ChronosInferenceDataLoader   *)
(* with on_batch = timeout_callback(seconds = time_limit)                  *)
(***************************************************************************)
\* The time limits a prediction can be given: None, or a number of seconds,
\* which is negative when fitting overran its own limit.
TimeLimits == {None} \cup {Some(t) : t \in (0 - 1)..MaxLimit}

\* Faulty variants of the callback's condition: None read as a limit of
\* 0 seconds, and >= in place of >.
ExpiredNoneAsZero(sec, elapsed) ==
    elapsed > (IF sec = None THEN 0 ELSE Get(sec))

ExpiredAtLimit(sec, elapsed) == sec # None /\ elapsed >= Get(sec)

\* callback(): seconds is not None and time.monotonic() - start_time > seconds
Expired(sec, elapsed) == sec # None /\ elapsed > Get(sec)

\* Faulty variant of __iter__: the callback runs before the first fetch.
IterEntryCheckFirst == "resume"

\* ChronosInferenceDataLoader.__iter__ starts by fetching an item; the
\* callback runs only when the generator is resumed after a yield.
IterEntry == "fetch"

\* Faulty variant: the sampler walks the dataset from its end.
NextBatchBackwards ==
    [i \in 1..(Min(next_idx + batch_size, num_items) - next_idx) |->
        num_items - next_idx - i]

\* Faulty variant: once the last batch has been yielded the generator ends
\* without running the callback for it.
ResumeSkipsLastCheck == IF next_idx >= num_items THEN "fetch" ELSE "resume"

\* The generator is resumed after its yield: self.callback() is the next
\* statement, whichever batch was yielded.
Resume == "resume"

\* The indices of the next batch of the sequential (shuffle=False) sampler.
NextBatch ==
    [i \in 1..(Min(next_idx + batch_size, num_items) - next_idx) |->
        next_idx + i - 1]

RECURSIVE Flatten(_)
\* np.concatenate(batches, axis=0)
Flatten(bs) == IF bs = <<>> THEN <<>> ELSE Head(bs) \o Flatten(Tail(bs))

\* Faulty variant: the loop is left on TimeLimitExceeded and the outputs
\* collected so far are returned.
RaiseReturnsPartial(means) ==
    [pc |-> "returned", forecast |-> Some(Flatten(means))]

\* Faulty variant: the exception is swallowed and the loop goes on.
RaiseSwallowed(means) == [pc |-> "fetch", forecast |-> None]

\* TimeLimitExceeded leaving the generator: _predict has no handler, the
\* exception reaches the caller and nothing is returned.
RaiseOutcome(means) == [pc |-> "raised", forecast |-> None]

\* _get_inference_data_loader: dataset, loader and timeout_callback built.
LoaderInit ==
    /\ now = 0
    /\ seconds \in TimeLimits
    /\ start_time = now
    /\ num_items \in 0..MaxItems
    /\ batch_size \in 1..MaxBatch
    /\ next_idx = 0
    /\ batch = <<>>
    /\ yielded = 0
    /\ yield_log = <<>>
    /\ batch_means = <<>>
    /\ check_log = <<>>
    /\ forecast = None
    /\ ld_pc = IterEntry

LdRunning == ld_pc \in {"fetch", "body", "resume"}

\* Wall-clock time passes, at any point of the call.
Tick ==
    /\ LdRunning
    /\ now < MaxTime
    /\ now' = now + 1
    /\ UNCHANGED <<seconds, start_time, num_items, batch_size, next_idx, batch,
                   yielded, batch_means, check_log, forecast, ld_pc,
                   yield_log>>
    /\ UNCHANGED notLdVars

\* for item in super().__iter__(): yield item
LdYield ==
    /\ ld_pc = "fetch"
    /\ next_idx < num_items
    /\ batch' = NextBatch
    /\ next_idx' = next_idx + Len(NextBatch)
    /\ yielded' = yielded + 1
    /\ yield_log' = Append(yield_log, now)
    /\ ld_pc' = "body"
    /\ UNCHANGED <<now, seconds, start_time, num_items, batch_size,
                   batch_means, check_log, forecast>>
    /\ UNCHANGED notLdVars

\* the loop body: predict_quantiles(batch), append the outputs; the next
\* item is then requested, which resumes the generator after its yield.
LdBody ==
    /\ ld_pc = "body"
    /\ batch_means' = Append(batch_means, batch)
    /\ ld_pc' = Resume
    /\ UNCHANGED <<now, seconds, start_time, num_items, batch_size, next_idx,
                   batch, yielded, check_log, forecast,
                   yield_log>>
    /\ UNCHANGED notLdVars

\* self.callback() passes.
LdCheckPass ==
    /\ ld_pc = "resume"
    /\ ~Expired(seconds, now - start_time)
    /\ check_log' = Append(check_log, [at |-> now, raised |-> FALSE])
    /\ ld_pc' = "fetch"
    /\ UNCHANGED <<now, seconds, start_time, num_items, batch_size, next_idx,
                   batch, yielded, batch_means, forecast,
                   yield_log>>
    /\ UNCHANGED notLdVars

\* self.callback() raises TimeLimitExceeded.
LdCheckRaise ==
    /\ ld_pc = "resume"
    /\ Expired(seconds, now - start_time)
    /\ check_log' = Append(check_log, [at |-> now, raised |-> TRUE])
    /\ ld_pc' = RaiseOutcome(batch_means).pc
    /\ forecast' = RaiseOutcome(batch_means).forecast
    /\ UNCHANGED <<now, seconds, start_time, num_items, batch_size, next_idx,
                   batch, yielded, batch_means,
                   yield_log>>
    /\ UNCHANGED notLdVars

\* the loader is exhausted after at least one batch: the frame is built
\* from the concatenated outputs and returned.
LdReturn ==
    /\ ld_pc = "fetch"
    /\ next_idx >= num_items
    /\ batch_means # <<>>
    /\ forecast' = Some(Flatten(batch_means))
    /\ ld_pc' = "returned"
    /\ UNCHANGED <<now, seconds, start_time, num_items, batch_size, next_idx,
                   batch, yielded, batch_means, check_log,
                   yield_log>>
    /\ UNCHANGED notLdVars

\* no batch at all: np.concatenate of an empty list raises ValueError.
LdEmpty ==
    /\ ld_pc = "fetch"
    /\ next_idx >= num_items
    /\ batch_means = <<>>
    /\ ld_pc' = "value_error"
    /\ UNCHANGED <<now, seconds, start_time, num_items, batch_size, next_idx,
                   batch, yielded, batch_means, check_log, forecast,
                   yield_log>>
    /\ UNCHANGED notLdVars

LoaderNext ==
    \/ Tick
    \/ LdYield
    \/ LdBody
    \/ LdCheckPass
    \/ LdCheckRaise
    \/ LdReturn
    \/ LdEmpty

LoaderIdle ==
    /\ now = 0
    /\ seconds = None
    /\ start_time = 0
    /\ num_items = 0
    /\ batch_size = 1
    /\ next_idx = 0
    /\ batch = <<>>
    /\ yielded = 0
    /\ yield_log = <<>>
    /\ batch_means = <<>>
    /\ check_log = <<>>
    /\ forecast = None
    /\ ld_pc = "idle"

(***************************************************************************)
(* ChronosFineTuningDataset: windows of the series of gluonts_dataset.     *)
(* The splitter and the samplers are GluonTS's: InstanceSplitter cuts one  *)
(* window at every index its instance_sampler returns for the target;      *)
(* a sampler's bounds are (min_past = 0, len(target) - min_future);        *)
(* ValidationSplitSampler returns the upper bound alone when the bounds    *)
(* are not empty, ExpectedNumInstanceSampler keeps each index of the       *)
(* bounds with probability num_instances / (average number of indices).    *)
(***************************************************************************)
\* Observation t of series k: series are told apart by their values.
ObsAt(k, t) == k * 10 + t

\* entry["target"] of series k.
Target(k) == [t \in 1..At(ft_lengths, k) |-> ObsAt(k, t - 1)]

\* Faulty variant: one observation too few is kept for the future part.
TrainingMinFutureOffByOne == prediction_length - 1

\* min_future handed to the two samplers.
TrainingMinFuture == prediction_length

ValidationMinFuture == prediction_length

\* InstanceSampler._get_bounds with min_past = 0.
GetBounds(L, min_future) == [a |-> 0, b |-> L - min_future]

\* ValidationSplitSampler(min_future)(target)
ValidationIndices(L) ==
    LET bd == GetBounds(L, ValidationMinFuture)
    IN  IF bd.a <= bd.b THEN {bd.b} ELSE {}

\* ExpectedNumInstanceSampler(num_instances = 1.0, min_future)(target):
\* the sets of indices it can return, n and total_length being its
\* counters after this call. Each index is kept when a uniform draw from
\* [0, 1) is below p = 1.0 / (total_length / n).
TrainingIndexSets(L, n, total) ==
    LET bd == GetBounds(L, TrainingMinFuture)
    IN  IF bd.b - bd.a + 1 <= 0 THEN {{}}
        ELSE IF total <= n THEN {bd.a..bd.b}
        ELSE SUBSET (bd.a..bd.b)

\* InstanceSplitter: the window of series k cut at index i, with
\* past_length = context_length, future_length = prediction_length and
\* dummy_value = nan. series and split record where it was cut.
Window(k, i) ==
    LET tg == Target(k)
        P == ft_context_length
    IN  [series |-> k,
         split |-> i,
         past |-> IF i > P THEN Slice(tg, i - P, i)
                  ELSE IF i < P THEN Full(P - i, NaN) \o Slice(tg, 0, i)
                  ELSE Slice(tg, 0, i),
         future |-> Slice(tg, i, i + prediction_length)]

RECURSIVE WindowsOf(_, _)
\* the windows of series k at the indices of S, in increasing order.
WindowsOf(k, S) ==
    IF S = {} THEN <<>>
    ELSE LET i == CHOOSE x \in S : \A y \in S : x <= y
         IN  <<Window(k, i)>> \o WindowsOf(k, S \ {i})

\* Faulty variant: __iter__ hands out one iterable built once, which is
\* exhausted after the first complete iteration.
RestartPosExhausted == Len(ft_lengths)

\* __iter__ builds a new iterable over self.gluonts_dataset on every call.
RestartPos == 0

\* ChronosFineTuningDataset.__init__; every item of a TimeSeriesDataFrame
\* has at least one row.
\* InstanceSplitter is a FlatMapTransformation: its __call__ counts the
\* consecutive entries that produced no result and raises once
\* num_idle_transforms > env.max_idle_transforms.
IdleGuard(idle) == idle > MaxIdleTransforms

\* Faulty variant: idle entries are not counted.
IdleCountStuck(idle, ws) == 0

\* num_idle_transforms after an entry that produced the windows ws: the
\* count goes up with the entry and back to 0 with a result.
IdleCount(idle, ws) == IF ws = <<>> THEN idle + 1 ELSE 0

\* the splitter after an entry: it goes on, or raises on too many idle ones.
AfterEntry(idle) == IF IdleGuard(idle) THEN "idle_error" ELSE "iterating"

SamplerInit ==
    /\ ft_lengths \in SeqsUpTo(1..MaxFtLen, MaxFtSeries)
    /\ ft_context_length \in 1..MaxPast
    /\ prediction_length \in 1..MaxPred
    /\ mode \in {"training", "validation"}
    /\ iter_no = 0
    /\ ft_pos = 0
    /\ passes = 0
    /\ visits = 0
    /\ sampler_n = 0
    /\ sampler_total = 0
    /\ windows = <<>>
    /\ sm_pc = "ready"
    /\ num_idle_transforms = 0

\* iter(dataset): a new splitter and sampler over gluonts_dataset.
SmIter ==
    /\ sm_pc \in {"ready", "exhausted"}
    /\ iter_no < MaxIters
    /\ iter_no' = iter_no + 1
    /\ ft_pos' = RestartPos
    /\ passes' = 0
    /\ visits' = 0
    /\ sampler_n' = 0
    /\ sampler_total' = 0
    /\ windows' = <<>>
    /\ sm_pc' = "iterating"
    /\ num_idle_transforms' = 0
    /\ UNCHANGED <<ft_lengths, ft_context_length, prediction_length, mode>>
    /\ UNCHANGED notSmVars

\* validation: the splitter handles the next series.
ValVisit ==
    /\ sm_pc = "iterating"
    /\ mode = "validation"
    /\ ft_pos < Len(ft_lengths)
    /\ LET ws == WindowsOf(ft_pos, ValidationIndices(At(ft_lengths, ft_pos)))
       IN  /\ windows' = windows \o ws
           /\ num_idle_transforms' = IdleCount(num_idle_transforms, ws)
    /\ sm_pc' = AfterEntry(num_idle_transforms')
    /\ ft_pos' = ft_pos + 1
    /\ visits' = visits + 1
    /\ UNCHANGED <<ft_lengths, ft_context_length, prediction_length, mode,
                   iter_no, passes, sampler_n, sampler_total>>
    /\ UNCHANGED notSmVars

\* validation: gluonts_dataset is exhausted, so is the iterator.
ValStop ==
    /\ sm_pc = "iterating"
    /\ mode = "validation"
    /\ ft_pos >= Len(ft_lengths)
    /\ sm_pc' = "exhausted"
    /\ UNCHANGED <<ft_lengths, ft_context_length, prediction_length, mode,
                   iter_no, ft_pos, passes, visits, sampler_n, sampler_total,
                   windows, num_idle_transforms>>
    /\ UNCHANGED notSmVars

\* training: the splitter handles the next series of the current pass.
TrainVisit ==
    /\ sm_pc = "iterating"
    /\ mode = "training"
    /\ ft_pos < Len(ft_lengths)
    /\ visits < MaxVisits
    /\ LET L == At(ft_lengths, ft_pos)
           bd == GetBounds(L, TrainingMinFuture)
           size == bd.b - bd.a + 1
           n2 == IF size <= 0 THEN sampler_n ELSE sampler_n + 1
           t2 == IF size <= 0 THEN sampler_total ELSE sampler_total + size
       IN  /\ sampler_n' = n2
           /\ sampler_total' = t2
           /\ \E S \in TrainingIndexSets(L, n2, t2) :
                 /\ windows' = windows \o WindowsOf(ft_pos, S)
                 /\ num_idle_transforms' =
                       IdleCount(num_idle_transforms, WindowsOf(ft_pos, S))
    /\ sm_pc' = AfterEntry(num_idle_transforms')
    /\ ft_pos' = ft_pos + 1
    /\ visits' = visits + 1
    /\ UNCHANGED <<ft_lengths, ft_context_length, prediction_length, mode,
                   iter_no, passes>>
    /\ UNCHANGED notSmVars

\* training: _infinite_iterable starts the next pass over the data.
TrainWrap ==
    /\ sm_pc = "iterating"
    /\ mode = "training"
    /\ ft_pos >= Len(ft_lengths)
    /\ passes < MaxPasses
    /\ passes' = passes + 1
    /\ ft_pos' = 0
    /\ UNCHANGED <<ft_lengths, ft_context_length, prediction_length, mode,
                   iter_no, visits, sampler_n, sampler_total, windows, sm_pc,
                   num_idle_transforms>>
    /\ UNCHANGED notSmVars

SamplerNext ==
    \/ SmIter
    \/ ValVisit
    \/ ValStop
    \/ TrainVisit
    \/ TrainWrap

SamplerIdle ==
    /\ ft_lengths = <<>>
    /\ ft_context_length = 1
    /\ prediction_length = 1
    /\ mode = "idle"
    /\ iter_no = 0
    /\ ft_pos = 0
    /\ passes = 0
    /\ visits = 0
    /\ sampler_n = 0
    /\ sampler_total = 0
    /\ windows = <<>>
    /\ sm_pc = "idle"
    /\ num_idle_transforms = 0

(***************************************************************************)
(* ChronosFineTuningDataset in training mode, pulled by a consumer         *)
(***************************************************************************)
\* ExpectedNumInstanceSampler uses its counters only through
\* p = n / total_length, and this model only through whether p >= 1. Both
\* counters grow by at least as much for total_length as for n, so the
\* pair is kept as the smallest one with the same answer.
SamplerCounters(n, total) ==
    IF n = 0 THEN [n |-> 0, total |-> 0]
    ELSE IF total <= n THEN [n |-> 1, total |-> 1]
    ELSE [n |-> 1, total |-> 2]

\* Faulty variant: the data is iterated once and the generator returns.
SinglePass == "exhausted"

\* _infinite_iterable: "while True: yield from data" never returns.
InfiniteIterable == "iterating"

StreamInit ==
    /\ SamplerInit
    /\ mode = "training"
    /\ pending = <<>>
    /\ pulled = None

\* next(): the splitter takes the next series of the pass and samples its
\* split indices.
StVisit ==
    /\ sm_pc = "iterating"
    /\ mode = "training"
    /\ pending = <<>>
    /\ ft_pos < Len(ft_lengths)
    /\ LET L == At(ft_lengths, ft_pos)
           bd == GetBounds(L, TrainingMinFuture)
           size == bd.b - bd.a + 1
           n2 == IF size <= 0 THEN sampler_n ELSE sampler_n + 1
           t2 == IF size <= 0 THEN sampler_total ELSE sampler_total + size
       IN  /\ sampler_n' = SamplerCounters(n2, t2).n
           /\ sampler_total' = SamplerCounters(n2, t2).total
           /\ \E S \in TrainingIndexSets(L, n2, t2) :
                 /\ pending' = WindowsOf(ft_pos, S)
                 /\ num_idle_transforms' =
                       IdleCount(num_idle_transforms, WindowsOf(ft_pos, S))
    /\ sm_pc' = AfterEntry(num_idle_transforms')
    /\ ft_pos' = ft_pos + 1
    /\ UNCHANGED <<ft_lengths, ft_context_length, prediction_length, mode,
                   iter_no, passes, visits, windows, pulled>>
    /\ UNCHANGED notStVars

\* next() returns: the consumer receives Head(pending).
StDeliver ==
    /\ sm_pc = "iterating"
    /\ mode = "training"
    /\ pending # <<>>
    /\ pulled' = Some(passes)
    /\ pending' = Tail(pending)
    /\ UNCHANGED smVars
    /\ UNCHANGED notStVars

\* the pass over the data ends; passes counts up to MaxPasses and stays.
StWrap ==
    /\ sm_pc = "iterating"
    /\ mode = "training"
    /\ pending = <<>>
    /\ ft_pos >= Len(ft_lengths)
    /\ sm_pc' = InfiniteIterable
    /\ ft_pos' = 0
    /\ passes' = Min(passes + 1, MaxPasses)
    /\ UNCHANGED <<ft_lengths, ft_context_length, prediction_length, mode,
                   iter_no, visits, sampler_n, sampler_total, windows,
                   pending, pulled, num_idle_transforms>>
    /\ UNCHANGED notStVars

StreamNext ==
    \/ SmIter
    \/ StVisit
    \/ StDeliver
    \/ StWrap

\* a visit of a series in which the sampler keeps at least one index.
StVisitYielding == StVisit /\ pending' # <<>>

StreamIdle ==
    /\ pending = <<>>
    /\ pulled = None

(***************************************************************************)
(* Argument validation of the datasets                                     *)
(***************************************************************************)
Args == (0 - MaxArg)..MaxArg

\* ChronosInferenceDataset(target_df, context_length) is about to be called.
CallInference ==
    /\ cf_kind = "inference"
    /\ cf_context_length \in Args
    /\ cf_prediction_length = 1
    /\ cf_mode = "none"
    /\ cf_buffer_size = None

\* ChronosFineTuningDataset(target_df, context_length, prediction_length,
\* mode) is about to be called.
CallFineTuning ==
    /\ cf_kind = "finetuning"
    /\ cf_context_length \in Args
    /\ cf_prediction_length \in Args
    /\ cf_mode \in {"training", "validation", "other"}
    /\ cf_buffer_size = None

\* dataset.shuffle(shuffle_buffer_size) is about to be called.
CallShuffle ==
    /\ cf_kind = "shuffle"
    /\ cf_context_length = 1
    /\ cf_prediction_length = 1
    /\ cf_mode = "none"
    /\ cf_buffer_size \in {None} \cup {Some(b) : b \in Args}

ConfigInit ==
    /\ cf_pc = "call"
    /\ (CallInference \/ CallFineTuning \/ CallShuffle)

\* ChronosInferenceDataset.__init__: assert context_length > 0
InferenceArgsAccepted == cf_context_length > 0

\* ChronosFineTuningDataset.__init__: assert mode in ("training",
\* "validation"); the two lengths are stored as they come.
FineTuningArgsAccepted == cf_mode \in {"training", "validation"}

\* shuffle: assert shuffle_buffer_size is None or shuffle_buffer_size >= 0
ShuffleArgsAccepted == cf_buffer_size = None \/ Get(cf_buffer_size) >= 0

\* InstanceSplitter.__init__, run by __iter__ when the first window is
\* asked for: assert future_length > 0; past_length is not looked at.
SplitterArgsAccepted == cf_prediction_length > 0

CfConstructInference ==
    /\ cf_pc = "call" /\ cf_kind = "inference"
    /\ cf_pc' = IF InferenceArgsAccepted THEN "constructed"
                ELSE "assertion_error"
    /\ UNCHANGED <<cf_kind, cf_context_length, cf_prediction_length, cf_mode,
                   cf_buffer_size>>
    /\ UNCHANGED notCfVars

CfConstructFineTuning ==
    /\ cf_pc = "call" /\ cf_kind = "finetuning"
    /\ cf_pc' = IF FineTuningArgsAccepted THEN "constructed"
                ELSE "assertion_error"
    /\ UNCHANGED <<cf_kind, cf_context_length, cf_prediction_length, cf_mode,
                   cf_buffer_size>>
    /\ UNCHANGED notCfVars

CfShuffle ==
    /\ cf_pc = "call" /\ cf_kind = "shuffle"
    /\ cf_pc' = IF ShuffleArgsAccepted THEN "constructed"
                ELSE "assertion_error"
    /\ UNCHANGED <<cf_kind, cf_context_length, cf_prediction_length, cf_mode,
                   cf_buffer_size>>
    /\ UNCHANGED notCfVars

\* the first element is asked of a constructed object holding data.
CfFirstNext ==
    /\ cf_pc = "constructed"
    /\ cf_pc' = IF cf_kind = "finetuning" /\ ~SplitterArgsAccepted
                THEN "iter_error" ELSE "produced"
    /\ UNCHANGED <<cf_kind, cf_context_length, cf_prediction_length, cf_mode,
                   cf_buffer_size>>
    /\ UNCHANGED notCfVars

ConfigNext ==
    \/ CfConstructInference
    \/ CfConstructFineTuning
    \/ CfShuffle
    \/ CfFirstNext

ConfigIdle ==
    /\ cf_kind = "idle"
    /\ cf_context_length = 1
    /\ cf_prediction_length = 1
    /\ cf_mode = "none"
    /\ cf_buffer_size = None
    /\ cf_pc = "idle"

(***************************************************************************)
(* ChronosModel._fit: fine-tuning with the Trainer and the two callbacks   *)
(***************************************************************************)
Losses == 1..MaxLoss

\* eval_during_fine_tune as _fit uses it.
EvalDuringFineTune == val_data /\ eval_during_fine_tune

\* the callbacks list _fit builds.
Callbacks(tl, vd) ==
    (IF tl # None THEN <<"TimeLimitCallback">> ELSE <<>>)
        \o (IF vd THEN <<"EvaluateAndSaveFinalStepCallback">> ELSE <<>>)

Registered(cb) == \E i \in DOMAIN callbacks : callbacks[i] = cb

\* Faulty variant: the guard keeps the time of its construction.
StartTimeAtConstruction(created, t) == created

\* TimeLimitCallback.on_train_begin: self.start_time = time.monotonic()
StartTimeAtTrainBegin(created, t) == t

\* Faulty variant: the guard waits until the limit is passed.
TimeLimitPassed(elapsed_time, limit) == elapsed_time > limit

\* TimeLimitCallback.on_step_end: elapsed_time >= self.time_limit
TimeLimitReached(elapsed_time, limit) == elapsed_time >= limit

\* Faulty variant: the callback acts one step late.
FinalStepPassed(step, max) == step > max

\* EvaluateAndSaveFinalStepCallback.on_step_end:
\* state.global_step >= state.max_steps
FinalStepReached(step, max) == step >= max

\* the smallest eval_loss of the log history.
MinLoss(h) ==
    CHOOSE x \in {h[i].eval_loss : i \in DOMAIN h} :
        \A i \in DOMAIN h : x <= h[i].eval_loss

\* _fit is entered; start_time = time.monotonic() is time 0.
TrainerInit ==
    /\ time_limit \in TimeLimits
    /\ val_data \in BOOLEAN
    /\ eval_during_fine_tune \in BOOLEAN
    /\ max_steps \in 1..MaxSteps
    /\ eval_steps \in 1..MaxEvalSteps
    /\ clock = 0
    /\ callbacks = <<>>
    /\ cb_created_at = None
    /\ cb_start_time = None
    /\ train_began_at = None
    /\ global_step = 0
    /\ should_log = FALSE
    /\ should_evaluate = FALSE
    /\ should_save = FALSE
    /\ should_training_stop = FALSE
    /\ log_history = <<>>
    /\ last_saved = None
    /\ zero_shot_eval_loss = None
    /\ best_train_eval_loss = None
    /\ tr_pc = "callbacks"
    /\ fine_tuned_ckpt = FALSE
    /\ model_pipeline = "pretrained"
    /\ model_path = "pretrained"
    /\ self_time_limit = None

TrRunning ==
    tr_pc \in {"callbacks", "zero_shot", "train", "step", "flow",
               "time_limit", "final_step", "maybe", "trained"}

\* time passes while _fit runs.
TrTick ==
    /\ TrRunning
    /\ clock < MaxClock
    /\ clock' = clock + 1
    /\ UNCHANGED <<fitArgs, callbacks, cb_created_at, cb_start_time,
                   train_began_at, global_step, control, log_history,
                   last_saved, zero_shot_eval_loss, best_train_eval_loss,
                   tr_pc>>
    /\ UNCHANGED fitOut
    /\ UNCHANGED notTrVars

\* _fit builds the callbacks and the Trainer.
FitCallbacks ==
    /\ tr_pc = "callbacks"
    /\ callbacks' = Callbacks(time_limit, val_data)
    /\ cb_created_at' = IF time_limit # None THEN Some(clock) ELSE None
    /\ tr_pc' = "zero_shot"
    /\ UNCHANGED <<fitArgs, clock, cb_start_time, train_began_at,
                   global_step, control, log_history, last_saved,
                   zero_shot_eval_loss, best_train_eval_loss>>
    /\ UNCHANGED fitOut
    /\ UNCHANGED notTrVars

\* with validation data the model is evaluated once before training.
FitZeroShot ==
    /\ tr_pc = "zero_shot"
    /\ IF val_data
       THEN \E loss \in Losses : zero_shot_eval_loss' = Some(loss)
       ELSE zero_shot_eval_loss' = zero_shot_eval_loss
    /\ tr_pc' = "train"
    /\ UNCHANGED <<fitArgs, clock, callbacks, cb_created_at, cb_start_time,
                   train_began_at, global_step, control, log_history,
                   last_saved, best_train_eval_loss>>
    /\ UNCHANGED fitOut
    /\ UNCHANGED notTrVars

\* trainer.train() starts: a new TrainerState, then on_train_begin.
TrBegin ==
    /\ tr_pc = "train"
    /\ global_step' = 0
    /\ log_history' = <<>>
    /\ should_training_stop' = FALSE
    /\ train_began_at' = Some(clock)
    /\ cb_start_time' =
          IF Registered("TimeLimitCallback")
          THEN Some(StartTimeAtTrainBegin(Get(cb_created_at), clock))
          ELSE cb_start_time
    /\ tr_pc' = "step"
    /\ UNCHANGED <<fitArgs, clock, callbacks, cb_created_at, should_log,
                   should_evaluate, should_save, last_saved,
                   zero_shot_eval_loss, best_train_eval_loss>>
    /\ UNCHANGED fitOut
    /\ UNCHANGED notTrVars

\* one optimization step; the callback handler then clears the three
\* per-step flags before it calls on_step_end.
TrStep ==
    /\ tr_pc = "step"
    /\ global_step' = global_step + 1
    /\ should_log' = FALSE
    /\ should_evaluate' = FALSE
    /\ should_save' = FALSE
    /\ tr_pc' = "flow"
    /\ model_pipeline' = "fine_tuned"
    /\ UNCHANGED <<fitArgs, clock, callbacks, cb_created_at, cb_start_time,
                   train_began_at, should_training_stop, log_history,
                   last_saved, zero_shot_eval_loss, best_train_eval_loss>>
    /\ UNCHANGED <<fine_tuned_ckpt, model_path, self_time_limit>>
    /\ UNCHANGED notTrVars

\* the Trainer's own flow callback: the periodic schedule of the trainer
\* arguments _get_model_params sets, and the stop at max_steps.
TrFlow ==
    /\ tr_pc = "flow"
    /\ should_log' = (global_step % eval_steps = 0)
    /\ should_evaluate' =
          (EvalDuringFineTune /\ global_step % eval_steps = 0)
    /\ should_save' =
          (eval_during_fine_tune
             /\ (global_step % eval_steps = 0 \/ global_step >= max_steps))
    /\ should_training_stop' =
          (should_training_stop \/ global_step >= max_steps)
    /\ tr_pc' = IF Registered("TimeLimitCallback") THEN "time_limit"
                ELSE IF Registered("EvaluateAndSaveFinalStepCallback")
                THEN "final_step" ELSE "maybe"
    /\ UNCHANGED <<fitArgs, clock, callbacks, cb_created_at, cb_start_time,
                   train_began_at, global_step, log_history, last_saved,
                   zero_shot_eval_loss, best_train_eval_loss>>
    /\ UNCHANGED fitOut
    /\ UNCHANGED notTrVars

\* TimeLimitCallback.on_step_end
TrTimeLimit ==
    /\ tr_pc = "time_limit"
    /\ LET elapsed_time == clock - Get(cb_start_time)
       IN  should_training_stop' =
              IF TimeLimitReached(elapsed_time, Get(time_limit)) THEN TRUE
              ELSE should_training_stop
    /\ tr_pc' = IF Registered("EvaluateAndSaveFinalStepCallback")
                THEN "final_step" ELSE "maybe"
    /\ UNCHANGED <<fitArgs, clock, callbacks, cb_created_at, cb_start_time,
                   train_began_at, global_step, should_log, should_evaluate,
                   should_save, log_history, last_saved,
                   zero_shot_eval_loss, best_train_eval_loss>>
    /\ UNCHANGED fitOut
    /\ UNCHANGED notTrVars

\* EvaluateAndSaveFinalStepCallback.on_step_end
TrFinalStep ==
    /\ tr_pc = "final_step"
    /\ IF FinalStepReached(global_step, max_steps)
       THEN /\ should_log' = TRUE
            /\ should_evaluate' = TRUE
            /\ should_save' = TRUE
       ELSE UNCHANGED <<should_log, should_evaluate, should_save>>
    /\ tr_pc' = "maybe"
    /\ UNCHANGED <<fitArgs, clock, callbacks, cb_created_at, cb_start_time,
                   train_began_at, global_step, should_training_stop,
                   log_history, last_saved, zero_shot_eval_loss,
                   best_train_eval_loss>>
    /\ UNCHANGED fitOut
    /\ UNCHANGED notTrVars

\* the Trainer acts on the flags (an evaluation is logged, a checkpoint is
\* saved), clears them and leaves the loop when asked to stop.
TrMaybe ==
    /\ tr_pc = "maybe"
    /\ IF should_evaluate
       THEN \E loss \in Losses :
               log_history' = Append(log_history,
                                     [step |-> global_step, eval_loss |-> loss])
       ELSE log_history' = log_history
    /\ last_saved' = IF should_save THEN Some(global_step) ELSE last_saved
    /\ should_log' = FALSE
    /\ should_evaluate' = FALSE
    /\ should_save' = FALSE
    /\ tr_pc' = IF should_training_stop THEN "trained" ELSE "step"
    /\ UNCHANGED <<fitArgs, clock, callbacks, cb_created_at, cb_start_time,
                   train_began_at, global_step, should_training_stop,
                   zero_shot_eval_loss, best_train_eval_loss>>
    /\ UNCHANGED fitOut
    /\ UNCHANGED notTrVars

\* Faulty variant: the fine-tuned model is kept only when strictly better.
LossImproved(best, zero_shot) == best < zero_shot

\* _fit: best_train_eval_loss <= zero_shot_eval_loss
LossNotWorsened(best, zero_shot) == best <= zero_shot

\* _fit: self.model_pipeline.inner_model.save_pretrained(path / "fine-tuned-ckpt")
SaveFineTuned ==
    /\ fine_tuned_ckpt' = TRUE
    /\ model_pipeline' = model_pipeline
    /\ tr_pc' = "saved"

\* _fit: self.model_pipeline = None; self.load_model_pipeline(is_training=False),
\* which reads self.model_path.
RevertToPretrained ==
    /\ fine_tuned_ckpt' = fine_tuned_ckpt
    /\ model_pipeline' = model_path
    /\ tr_pc' = "reverted"

\* _fit compares the loss after fine-tuning with the zero-shot one.
KeepOrRevert(best) ==
    /\ best_train_eval_loss' = Some(best)
    /\ IF LossNotWorsened(best, Get(zero_shot_eval_loss)) THEN SaveFineTuned
       ELSE RevertToPretrained

\* _fit after trainer.train(): pick best_train_eval_loss, then save the
\* fine-tuned model or go back to the pretrained one.
\* log_history_df["eval_loss"] is a KeyError when no evaluation was logged.
FitSelect ==
    /\ tr_pc = "trained"
    /\ \/ /\ EvalDuringFineTune /\ log_history = <<>>
          /\ tr_pc' = "key_error"
          /\ best_train_eval_loss' = best_train_eval_loss
          /\ UNCHANGED <<fine_tuned_ckpt, model_pipeline>>
       \/ /\ EvalDuringFineTune /\ log_history # <<>>
          /\ KeepOrRevert(MinLoss(log_history))
       \/ /\ ~EvalDuringFineTune /\ val_data
          /\ \E loss \in Losses : KeepOrRevert(loss)
       \/ /\ ~val_data
          /\ SaveFineTuned
          /\ best_train_eval_loss' = best_train_eval_loss
    /\ UNCHANGED <<fitArgs, clock, callbacks, cb_created_at, cb_start_time,
                   train_began_at, global_step, control, log_history,
                   last_saved, zero_shot_eval_loss>>
    /\ UNCHANGED <<model_path, self_time_limit>>
    /\ UNCHANGED notTrVars

\* Faulty variant: a budget that is used up is stored as zero.
InferenceBudgetClamped(tl, elapsed, old) ==
    IF tl # None THEN Some(IF Get(tl) - elapsed < 0 THEN 0 ELSE Get(tl) - elapsed)
    ELSE old

\* _fit: if time_limit is not None:
\*           self.time_limit = time_limit - (time.monotonic() - start_time)
InferenceBudget(tl, elapsed, old) ==
    IF tl # None THEN Some(Get(tl) - elapsed) ELSE old

\* _fit returns; start_time is time 0, so the time it took is the clock.
FitReturn ==
    /\ tr_pc \in {"saved", "reverted"}
    /\ self_time_limit' = InferenceBudget(time_limit, clock, self_time_limit)
    /\ tr_pc' = "returned"
    /\ UNCHANGED <<fitArgs, clock, callbacks, cb_created_at, cb_start_time,
                   train_began_at, global_step, control, log_history,
                   last_saved, zero_shot_eval_loss, best_train_eval_loss>>
    /\ UNCHANGED <<fine_tuned_ckpt, model_pipeline, model_path>>
    /\ UNCHANGED notTrVars

\* ChronosModel.load of the model saved after _fit: save() pickles the
\* object without its pipeline; load points model_path at the fine-tuned
\* checkpoint when there is one.
Load ==
    /\ tr_pc = "returned"
    /\ model_path' = IF fine_tuned_ckpt THEN "fine-tuned-ckpt" ELSE model_path
    /\ model_pipeline' = "unloaded"
    /\ tr_pc' = "loaded"
    /\ UNCHANGED <<fitArgs, clock, callbacks, cb_created_at, cb_start_time,
                   train_began_at, global_step, control, log_history,
                   last_saved, zero_shot_eval_loss, best_train_eval_loss>>
    /\ UNCHANGED <<fine_tuned_ckpt, self_time_limit>>
    /\ UNCHANGED notTrVars

TrainerNext ==
    \/ TrTick
    \/ FitCallbacks
    \/ FitZeroShot
    \/ TrBegin
    \/ TrStep
    \/ TrFlow
    \/ TrTimeLimit
    \/ TrFinalStep
    \/ TrMaybe
    \/ FitSelect
    \/ FitReturn
    \/ Load

TrainerIdle ==
    /\ time_limit = None
    /\ val_data = FALSE
    /\ eval_during_fine_tune = FALSE
    /\ max_steps = 1
    /\ eval_steps = 1
    /\ clock = 0
    /\ callbacks = <<>>
    /\ cb_created_at = None
    /\ cb_start_time = None
    /\ train_began_at = None
    /\ global_step = 0
    /\ should_log = FALSE
    /\ should_evaluate = FALSE
    /\ should_save = FALSE
    /\ should_training_stop = FALSE
    /\ log_history = <<>>
    /\ last_saved = None
    /\ zero_shot_eval_loss = None
    /\ best_train_eval_loss = None
    /\ tr_pc = "idle"
    /\ fine_tuned_ckpt = FALSE
    /\ model_pipeline = "unloaded"
    /\ model_path = "pretrained"
    /\ self_time_limit = None

(***************************************************************************)
(* ChronosModel after _fit: score_and_cache_oof and predict.  Both end in  *)
(* _predict (score_and_cache_oof through the parent class, which hands     *)
(* its keyword arguments on to predict), and _predict reads its time       *)
(* limit from the keyword arguments alone.                                 *)
(***************************************************************************)
\* the keyword arguments of a call, by name: no name at all, or time_limit.
NoKwargs == [k \in {} |-> None]

TimeLimitKwarg(tl) == [time_limit |-> tl]

\* kwargs.get(key)
KwargsGet(kwargs, key) == IF key \in DOMAIN kwargs THEN kwargs[key] ELSE None

\* _fit's frame is gone once it has returned: its arguments, its locals
\* and the trainer; time is from here on kept by now.
FitFrameGone ==
    /\ time_limit' = None
    /\ val_data' = FALSE
    /\ eval_during_fine_tune' = FALSE
    /\ max_steps' = 1
    /\ eval_steps' = 1
    /\ clock' = 0
    /\ callbacks' = <<>>
    /\ cb_created_at' = None
    /\ cb_start_time' = None
    /\ train_began_at' = None
    /\ global_step' = 0
    /\ should_log' = FALSE
    /\ should_evaluate' = FALSE
    /\ should_save' = FALSE
    /\ should_training_stop' = FALSE
    /\ log_history' = <<>>
    /\ last_saved' = None
    /\ zero_shot_eval_loss' = None
    /\ best_train_eval_loss' = None

\* _predict(data, **kwargs): the loader and its timeout_callback are built
\* with time_limit=kwargs.get("time_limit"), over data of any size.
PredictCall(kwargs) ==
    /\ now' = 0
    /\ seconds' = KwargsGet(kwargs, "time_limit")
    /\ start_time' = now'
    /\ num_items' \in 0..MaxItems
    /\ batch_size' \in 1..MaxBatch
    /\ next_idx' = 0
    /\ batch' = <<>>
    /\ yielded' = 0
    /\ yield_log' = <<>>
    /\ batch_means' = <<>>
    /\ check_log' = <<>>
    /\ forecast' = None
    /\ ld_pc' = IterEntry

\* score_and_cache_oof: super().score_and_cache_oof(..., time_limit=self.time_limit)
ScoreAndCacheOof ==
    /\ tr_pc = "returned"
    /\ PredictCall(TimeLimitKwarg(self_time_limit))
    /\ tr_pc' = "score_and_cache_oof"
    /\ FitFrameGone
    /\ UNCHANGED fitOut
    /\ UNCHANGED <<dsVars, shVars, smVars, stVars, cfVars, cxVars, ixVars,
                   ubVars>>

\* predict called without a time_limit.
Predict ==
    /\ tr_pc = "returned"
    /\ PredictCall(NoKwargs)
    /\ tr_pc' = "predict"
    /\ FitFrameGone
    /\ UNCHANGED fitOut
    /\ UNCHANGED <<dsVars, shVars, smVars, stVars, cfVars, cxVars, ixVars,
                   ubVars>>

FitPredictNext ==
    \/ TrainerNext
    \/ ScoreAndCacheOof
    \/ Predict
    \/ LoaderNext

(***************************************************************************)
(* ChronosModel: which context length the datasets are built with          *)
(***************************************************************************)
maximum_context_length == 2048

\* lengths around zero and around the maximum.
NearZero == (0 - MaxArg)..MaxArg

NearMaximum ==
    (maximum_context_length - MaxArg)..(maximum_context_length + MaxArg)

\* Faulty variant: only None falls back to the length inferred from data.
ContextLengthIfNotNone(cl, inferred) ==
    IF cl = None THEN inferred ELSE Get(cl)

\* Python's "self.context_length or inferred": None and 0 are falsy.
ContextLengthOr(cl, inferred) ==
    IF cl = None \/ Get(cl) = 0 THEN inferred ELSE Get(cl)

\* _get_context_length(data), longest being the longest item of data.
GetContextLength(longest) ==
    ContextLengthOr(self_context_length,
                    Min(longest, maximum_context_length))

ContextInit ==
    /\ hp_context_length \in
          {None} \cup {Some(v) : v \in NearZero \cup NearMaximum}
    /\ self_context_length = None
    /\ cx_longest = 1
    /\ cx_path = "none"
    /\ cx_handed = None
    /\ cx_pc = "new"

\* ChronosModel.__init__: a configured value above the maximum is cut.
CxConstruct ==
    /\ cx_pc = "new"
    /\ self_context_length' =
          IF hp_context_length # None
               /\ Get(hp_context_length) > maximum_context_length
          THEN Some(maximum_context_length)
          ELSE hp_context_length
    /\ cx_pc' = "constructed"
    /\ UNCHANGED <<hp_context_length, cx_longest, cx_path, cx_handed>>
    /\ UNCHANGED notCxVars

\* _fit: ChronosFineTuningDataset(context_length =
\* self._get_context_length(train_data)); every item has a row or more.
CxFit ==
    /\ cx_pc = "constructed"
    /\ \E longest \in 1..MaxLen \cup NearMaximum :
          /\ cx_longest' = longest
          /\ cx_handed' = Some(GetContextLength(longest))
    /\ cx_path' = "fit"
    /\ UNCHANGED <<hp_context_length, self_context_length, cx_pc>>
    /\ UNCHANGED notCxVars

\* _predict: ChronosInferenceDataset(context_length =
\* self._get_context_length(data))
CxPredict ==
    /\ cx_pc = "constructed"
    /\ \E longest \in 1..MaxLen \cup NearMaximum :
          /\ cx_longest' = longest
          /\ cx_handed' = Some(GetContextLength(longest))
    /\ cx_path' = "predict"
    /\ UNCHANGED <<hp_context_length, self_context_length, cx_pc>>
    /\ UNCHANGED notCxVars

ContextNext ==
    \/ CxConstruct
    \/ CxFit
    \/ CxPredict

ContextIdle ==
    /\ hp_context_length = None
    /\ self_context_length = None
    /\ cx_longest = 1
    /\ cx_path = "none"
    /\ cx_handed = None
    /\ cx_pc = "idle"

(***************************************************************************)
(* Specifications                                                          *)
(***************************************************************************)
InitDataset ==
    DatasetInit /\ ShuffleIdle /\ LoaderIdle /\ SamplerIdle /\ StreamIdle
    /\ ConfigIdle /\ TrainerIdle /\ ContextIdle
    /\ IndexIdle
    /\ UnboundedIdle

SpecDataset == InitDataset /\ [][DatasetNext]_vars

InitIndex ==
    IndexInit /\ DatasetIdle /\ ShuffleIdle /\ LoaderIdle /\ SamplerIdle
    /\ StreamIdle /\ ConfigIdle /\ TrainerIdle /\ ContextIdle
    /\ UnboundedIdle

SpecIndex == InitIndex /\ [][IndexNext]_vars

InitShuffle ==
    ShuffleInit /\ DatasetIdle /\ LoaderIdle /\ SamplerIdle /\ StreamIdle
    /\ ConfigIdle /\ TrainerIdle /\ ContextIdle
    /\ IndexIdle
    /\ UnboundedIdle

SpecShuffle == InitShuffle /\ [][ShuffleNext]_vars

InitUnbounded ==
    UnboundedInit /\ DatasetIdle /\ ShuffleIdle /\ LoaderIdle /\ SamplerIdle
    /\ StreamIdle /\ ConfigIdle /\ TrainerIdle /\ ContextIdle /\ IndexIdle

\* the pseudo-shuffle over a finite source or over the training stream.
InitPulled == InitShuffle \/ InitUnbounded

PulledNext == ShuffleNext \/ UnboundedNext

\* The consumer keeps pulling, so the generator keeps running (weak
\* fairness of its steps). torch.randint draws every index of the buffer
\* with the same positive probability at every pop, so the index of a
\* buffered element is not avoided for ever (strong fairness).
SpecPulledFair ==
    /\ InitPulled
    /\ [][PulledNext]_vars
    /\ WF_vars(PulledNext)
    /\ SF_vars(UbPopFollowed)

\* The same with a consumer that keeps pulling and no assumption on the
\* random index.
SpecPulled ==
    /\ InitPulled
    /\ [][PulledNext]_vars
    /\ WF_vars(PulledNext)

InitLoader ==
    LoaderInit /\ DatasetIdle /\ ShuffleIdle /\ SamplerIdle /\ StreamIdle
    /\ ConfigIdle /\ TrainerIdle /\ ContextIdle
    /\ IndexIdle
    /\ UnboundedIdle

SpecLoader == InitLoader /\ [][LoaderNext]_vars

InitSampler ==
    SamplerInit /\ DatasetIdle /\ ShuffleIdle /\ LoaderIdle /\ StreamIdle
    /\ ConfigIdle /\ TrainerIdle /\ ContextIdle
    /\ IndexIdle
    /\ UnboundedIdle

SpecSampler == InitSampler /\ [][SamplerNext]_vars

InitStream ==
    StreamInit /\ DatasetIdle /\ ShuffleIdle /\ LoaderIdle /\ ConfigIdle
    /\ TrainerIdle /\ ContextIdle
    /\ IndexIdle
    /\ UnboundedIdle

\* The consumer keeps pulling, so the generator keeps running (weak
\* fairness of every step). Each index of a non-empty range is kept with a
\* probability p > 0 that is drawn anew at every visit, so a visit that
\* keeps an index is not avoided forever (strong fairness).
SpecStreamFair ==
    /\ InitStream
    /\ [][StreamNext]_vars
    /\ WF_vars(StreamNext)
    /\ SF_vars(StVisitYielding)

InitConfig ==
    ConfigInit /\ DatasetIdle /\ ShuffleIdle /\ LoaderIdle /\ SamplerIdle
    /\ StreamIdle /\ TrainerIdle /\ ContextIdle
    /\ IndexIdle
    /\ UnboundedIdle

SpecConfig == InitConfig /\ [][ConfigNext]_vars

InitTrainer ==
    TrainerInit /\ DatasetIdle /\ ShuffleIdle /\ LoaderIdle /\ SamplerIdle
    /\ StreamIdle /\ ConfigIdle /\ ContextIdle
    /\ IndexIdle
    /\ UnboundedIdle

SpecTrainer == InitTrainer /\ [][TrainerNext]_vars

\* _fit, then what is called on the fitted model.
SpecFitPredict == InitTrainer /\ [][FitPredictNext]_vars

\* the two time budgets side by side: a run is either a _predict call or
\* a _fit call.
InitBudgets == InitLoader \/ InitTrainer

BudgetsNext == LoaderNext \/ TrainerNext

SpecBudgets == InitBudgets /\ [][BudgetsNext]_vars

InitContext ==
    ContextInit /\ DatasetIdle /\ ShuffleIdle /\ LoaderIdle /\ SamplerIdle
    /\ StreamIdle /\ ConfigIdle /\ TrainerIdle
    /\ IndexIdle
    /\ UnboundedIdle

SpecContext == InitContext /\ [][ContextNext]_vars

(***************************************************************************)
(* C1                                                                      *)
(***************************************************************************)
\* C1: __getitem__ returns exactly context_length values; the last
\* min(L, W) are the last min(L, W) observations of the indexed series
\* itself (in order) and the first max(0, W - L) are NaN; since the result
\* is fixed by the indexed series alone, no neighbouring value appears.
C1_LastWindow ==
    item_idx # None =>
        LET s == At(target_df, Get(item_idx))
            L == Len(s)
            W == context_length
            r == Get(item)
        IN  /\ Len(r) = W
            /\ \A j \in 1..Min(L, W) : r[W - Min(L, W) + j] = s[L - Min(L, W) + j]
            /\ \A j \in 1..Max(0, W - L) : r[j] = NaN

\* A short series between two non-empty neighbours was padded, and a long
\* one was truncated.
C1_Witness ==
    /\ item_idx # None
    /\ Len(target_df) = 2
    /\ Len(At(target_df, 0)) > 0
    /\ Get(item_idx) = 1
    /\ Len(At(target_df, 1)) < context_length
    /\ Len(At(target_df, 1)) > 0

(***************************************************************************)
(* C2, C3                                                                  *)
(***************************************************************************)
Count(s, e) == Cardinality({i \in DOMAIN s : s[i] = e})

SameMultiset(s, t) == \A e \in Elements : Count(s, e) = Count(t, e)

\* C2: for every buffer size B >= 0 and every finite source of N elements
\* the iteration cannot get stuck before it ends, what was read is always
\* either emitted or buffered (nothing lost, nothing duplicated), and when
\* it ends exactly N elements were emitted, their multiset is the source's
\* and the buffer is empty.
C2_ShuffleConserves ==
    /\ SameMultiset(emitted \o shuffle_buffer, SubSeq(source, 1, src_pos))
    /\ sh_pc # "done" => ENABLED ShuffleNext
    /\ sh_pc = "done" =>
          /\ Len(emitted) = Len(source)
          /\ SameMultiset(emitted, source)
          /\ shuffle_buffer = <<>>

\* A wrapper whose source is longer than its buffer, and one whose source
\* is not, both finished, the first one out of source order.
C2_Witness ==
    /\ wrapped /\ sh_pc = "done"
    /\ shuffle_buffer_size >= 2
    /\ Len(source) > shuffle_buffer_size
    /\ emitted # source

\* C3: shuffle(None) and shuffle(0) hand back the dataset itself: nothing
\* is ever buffered, what has been emitted is exactly the source read so
\* far, in source order, and at the end it is the whole source.
C3_PassThrough ==
    via = "shuffle" /\ (shuffle_arg = None \/ shuffle_arg = Some(0)) =>
        /\ ~wrapped
        /\ shuffle_buffer = <<>>
        /\ emitted = SubSeq(source, 1, src_pos)
        /\ sh_pc = "done" => emitted = source

C3_Witness ==
    /\ via = "shuffle"
    /\ shuffle_arg = Some(0)
    /\ ~wrapped
    /\ sh_pc = "done"
    /\ Len(source) >= 3
    /\ emitted = source

(***************************************************************************)
(* C4 - C7                                                                 *)
(***************************************************************************)
\* C4: with time_limit = None no callback call raises, however many
\* batches were checked and however much time had passed at each check.
C4_NoLimitNeverRaises ==
    seconds = None /\ ld_pc # "idle" =>
        /\ ld_pc # "raised"
        /\ \A k \in DOMAIN check_log : ~check_log[k].raised

\* Two checks passed without a limit, the last one at the latest time.
C4_Witness ==
    /\ seconds = None
    /\ Len(check_log) >= 2
    /\ check_log[Len(check_log)].at = MaxTime
    /\ ld_pc = "returned"

\* C5: over a non-empty dataset, as long as no batch has been yielded no
\* deadline check has run, nothing has been raised and yielding the first
\* batch is the loader's next step; so a raise implies a yielded batch,
\* whatever the limit and however late iteration starts.
C5_FirstBatchBeforeCheck ==
    num_items >= 1 =>
        /\ yielded = 0 =>
              /\ check_log = <<>>
              /\ ld_pc = "fetch"
              /\ ENABLED LdYield
        /\ ld_pc = "raised" => yielded >= 1

\* The budget was already exhausted when the first batch was yielded, and
\* the check after that batch raised.
C5_Witness ==
    /\ seconds # None
    /\ ld_pc = "raised"
    /\ yielded = 1
    /\ Len(check_log) = 1
    /\ num_items > batch_size
    /\ check_log[1].at - start_time > Get(seconds) + 1

\* C6: every check of a time-limited loader raised iff the time elapsed
\* since the callback was built was strictly greater than the limit.
C6_RaiseIffElapsedExceeds ==
    seconds # None =>
        \A k \in DOMAIN check_log :
            check_log[k].raised <=> (check_log[k].at - start_time > Get(seconds))

\* A check at which the elapsed time equalled a positive limit passed and
\* a later one raised.
C6_Witness ==
    /\ seconds # None
    /\ Get(seconds) > 0
    /\ Len(check_log) >= 2
    /\ check_log[1].at - start_time = Get(seconds)
    /\ ~check_log[1].raised
    /\ check_log[Len(check_log)].raised

\* C7: once a check has raised, the call is over with the exception: it
\* returned no forecast, and no batch is fetched, no batch is passed to
\* the model and nothing is returned afterwards.
C7_RaiseAbortsLoop ==
    (check_log # <<>> /\ check_log[Len(check_log)].raised) =>
        /\ ld_pc = "raised"
        /\ forecast = None
        /\ ~ENABLED LdYield
        /\ ~ENABLED LdBody
        /\ ~ENABLED LdReturn
        /\ ~ENABLED LdCheckPass

\* The raise came after two batches had been processed, with items left.
C7_Witness ==
    /\ ld_pc = "raised"
    /\ Len(batch_means) >= 2
    /\ next_idx < num_items
    /\ forecast = None

(***************************************************************************)
(* C8 - C10                                                                *)
(***************************************************************************)
\* The series with at least prediction_length observations, in input order.
LongEnough == {k \in 0..(Len(ft_lengths) - 1) : At(ft_lengths, k) >= prediction_length}

\* C8: a complete validation-mode iteration over K series yields exactly
\* K windows, window k being the one of series k, whatever the lengths of
\* the series (also for series shorter than prediction_length).
C8_OneWindowPerSeries ==
    mode = "validation" /\ sm_pc = "exhausted" =>
        /\ Len(windows) = Len(ft_lengths)
        /\ \A j \in DOMAIN windows : windows[j].series = j - 1

\* C9 as stated: once a validation-mode dataset object has been iterated
\* completely, a further iteration of the same object yields no window.
C9_ConsumedOnce ==
    mode = "validation" /\ iter_no >= 2 => windows = <<>>

\* C9 as amended: every complete iteration of the same validation-mode
\* dataset object, the first one and any later one, yields one window per
\* series that has at least prediction_length observations, in input
\* order, each cut prediction_length before the end of its series.
C9_EveryIterationYieldsAgain ==
    mode = "validation" /\ sm_pc = "exhausted" =>
        /\ Len(windows) = Cardinality(LongEnough)
        /\ {windows[j].series : j \in DOMAIN windows} = LongEnough
        /\ \A i, j \in DOMAIN windows :
              i < j => windows[i].series < windows[j].series
        /\ \A j \in DOMAIN windows :
              windows[j].split =
                  At(ft_lengths, windows[j].series) - prediction_length

\* The second complete iteration of one object yielded two windows.
C9_Witness ==
    /\ mode = "validation"
    /\ iter_no = 2
    /\ sm_pc = "exhausted"
    /\ Len(windows) = 2

\* C10 as stated: in training mode a series shorter than prediction_length has no
\* window; every window's future part is prediction_length observations
\* of its own series, starting at the split point, which lies at least
\* prediction_length before the series end; the stream never ends or
\* fails, and after any series, skipped or not, the splitter goes on.
C10_TrainingFutureIsReal ==
    mode = "training" =>
        /\ \A j \in DOMAIN windows :
              LET w == windows[j]
                  L == At(ft_lengths, w.series)
              IN  /\ L >= prediction_length
                  /\ w.split >= 0
                  /\ w.split + prediction_length <= L
                  /\ Len(w.future) = prediction_length
                  /\ \A t \in 1..prediction_length :
                        w.future[t] = ObsAt(w.series, w.split + t - 1)
        /\ sm_pc \in {"ready", "iterating"}
        /\ (sm_pc = "iterating" /\ visits < MaxVisits /\ passes < MaxPasses)
              => ENABLED (TrainVisit \/ TrainWrap)

\* C10, amended: as above, except that the stream can fail in one way: the
\* splitter raises once more than max_idle_transforms consecutive series
\* have given no window; short of that it goes on after any series.
C10_FutureIsRealIdleBounded ==
    mode = "training" =>
        /\ \A j \in DOMAIN windows :
              LET w == windows[j]
                  L == At(ft_lengths, w.series)
              IN  /\ L >= prediction_length
                  /\ w.split >= 0
                  /\ w.split + prediction_length <= L
                  /\ Len(w.future) = prediction_length
                  /\ \A t \in 1..prediction_length :
                        w.future[t] = ObsAt(w.series, w.split + t - 1)
        /\ sm_pc \in {"ready", "iterating", "idle_error"}
        /\ sm_pc = "idle_error" <=> num_idle_transforms > MaxIdleTransforms
        /\ num_idle_transforms <= visits
        /\ (sm_pc = "iterating" /\ visits < MaxVisits /\ passes < MaxPasses)
              => ENABLED (TrainVisit \/ TrainWrap)

\* A series shorter than prediction_length was passed over and the series
\* after it gave a window.
C10_Witness ==
    /\ mode = "training"
    /\ Len(ft_lengths) = 2
    /\ At(ft_lengths, 0) < prediction_length
    /\ visits = 2
    /\ windows # <<>>
    /\ windows[1].series = 1

(***************************************************************************)
(* C11                                                                     *)
(***************************************************************************)
\* C11 as stated: in training mode the stream never ends: the finite collection is
\* cycled, the iterator never signals exhaustion, and when at least one
\* series has prediction_length observations or more, a consumer that
\* keeps pulling receives another window again and again.
C11_TrainingStreamUnbounded ==
    /\ [](sm_pc # "exhausted")
    /\ (LongEnough # {}) => []<><<StDeliver>>_vars

\* C11, amended: the iterator never signals exhaustion, and with a series
\* of prediction_length observations or more a consumer that keeps pulling
\* receives another window again and again, unless the splitter's idle
\* guard ends the stream with an exception.
C11_UnboundedUnlessIdle ==
    /\ [](sm_pc # "exhausted")
    /\ (LongEnough # {}) =>
          ([]<><<StDeliver>>_vars \/ <>(sm_pc = "idle_error"))

\* A window was received in a pass after the first one, from a collection
\* that also holds a series too short to give any window.
C11_Witness ==
    /\ pulled # None
    /\ Get(pulled) >= 1
    /\ LongEnough # {}
    /\ Cardinality(LongEnough) < Len(ft_lengths)

(***************************************************************************)
(* C12                                                                     *)
(***************************************************************************)
InvalidConfiguration ==
    \/ cf_kind = "inference" /\ cf_context_length <= 0
    \/ cf_kind = "finetuning"
          /\ (cf_context_length <= 0 \/ cf_prediction_length <= 0)
    \/ cf_kind = "shuffle" /\ cf_buffer_size # None
          /\ Get(cf_buffer_size) < 0

\* C12: a non-positive context_length of the inference dataset, a
\* non-positive context_length or prediction_length of the window sampler
\* and a negative shuffle_buffer_size are all rejected by the constructing
\* call, before any window or batch is produced, and no iteration step
\* raises a configuration error.
C12_InvalidRejectedEagerly ==
    /\ InvalidConfiguration => cf_pc \in {"call", "assertion_error"}
    /\ cf_pc # "iter_error"

(***************************************************************************)
(* C13                                                                     *)
(***************************************************************************)
\* C13 as stated: the guard records its start time at loop start; at the
\* end of a step it sets the stop signal exactly when the time elapsed
\* since loop start exceeds (is greater than) the limit, touching no other
\* flag; it never clears the signal, and outside its end-of-step call (so
\* also while a step runs) the signal is not changed on its behalf.
C13_StopsWhenLimitExceeded ==
    [][/\ cb_start_time' # cb_start_time =>
             tr_pc = "train" /\ cb_start_time' = Some(clock)
       /\ tr_pc = "time_limit" /\ tr_pc' # tr_pc =>
             /\ should_training_stop' =
                   (should_training_stop
                      \/ clock - Get(train_began_at) > Get(time_limit))
             /\ UNCHANGED <<should_log, should_evaluate, should_save>>
       /\ tr_pc \notin {"train", "flow", "time_limit"} \/ tr_pc' = tr_pc =>
             should_training_stop' = should_training_stop]_vars

\* C13, amended: as above, but the stop signal is set exactly when the
\* elapsed time has reached the limit (is greater than or equal to it).
C13_StopsWhenLimitReached ==
    [][/\ cb_start_time' # cb_start_time =>
             tr_pc = "train" /\ cb_start_time' = Some(clock)
       /\ tr_pc = "time_limit" /\ tr_pc' # tr_pc =>
             /\ should_training_stop' =
                   (should_training_stop
                      \/ clock - Get(train_began_at) >= Get(time_limit))
             /\ UNCHANGED <<should_log, should_evaluate, should_save>>
       /\ tr_pc \notin {"train", "flow", "time_limit"} \/ tr_pc' = tr_pc =>
             should_training_stop' = should_training_stop]_vars

\* The guard has just stopped a loop short of max_steps at the very moment
\* the elapsed time equalled a positive limit.
C13_Witness ==
    /\ tr_pc \in {"final_step", "maybe"}
    /\ should_training_stop
    /\ global_step < max_steps
    /\ Get(time_limit) > 0
    /\ clock - Get(train_began_at) = Get(time_limit)

(***************************************************************************)
(* C14                                                                     *)
(***************************************************************************)
\* C14 as stated: both budgets count from the construction of the
\* component: a check of the inference callback raises iff the time since
\* the callback was built (time 0 of a _predict run) is above the limit,
\* and the fine-tuning guard stops the loop iff the time since the guard
\* was constructed has reached the limit.
C14_BudgetsFromConstruction ==
    /\ [](seconds # None =>
            \A k \in DOMAIN check_log :
                check_log[k].raised <=> check_log[k].at > Get(seconds))
    /\ [][tr_pc = "time_limit" /\ tr_pc' # tr_pc =>
             should_training_stop' =
                (should_training_stop
                   \/ clock - Get(cb_created_at) >= Get(time_limit))]_vars

\* C14, amended: the inference budget counts from the construction of the
\* callback, the fine-tuning budget from the start of the training loop:
\* the guard stops the loop iff the time since trainer.train() began has
\* reached the limit, whenever the guard itself was constructed.
C14_FitBudgetFromLoopStart ==
    /\ [](seconds # None =>
            \A k \in DOMAIN check_log :
                check_log[k].raised <=> check_log[k].at > Get(seconds))
    /\ [][tr_pc = "time_limit" /\ tr_pc' # tr_pc =>
             should_training_stop' =
                (should_training_stop
                   \/ clock - Get(train_began_at) >= Get(time_limit))]_vars

\* A step ended with the limit reached when counted from the guard's
\* construction, but not when counted from the start of the loop, and the
\* loop goes on.
C14_Witness ==
    /\ tr_pc = "maybe"
    /\ time_limit # None
    /\ ~should_training_stop
    /\ Get(cb_created_at) < Get(train_began_at)
    /\ clock - Get(cb_created_at) >= Get(time_limit)
    /\ clock - Get(train_began_at) < Get(time_limit)

(***************************************************************************)
(* C15                                                                     *)
(***************************************************************************)
\* C15: at the end of a step at which global_step has reached max_steps
\* the final-step callback sets should_log, should_evaluate and
\* should_save, whatever the periodic schedule had set; at the end of a
\* step with global_step below max_steps it changes no control flag. It
\* never changes should_training_stop.
C15_FinalStepForcesFlags ==
    [][tr_pc = "final_step" /\ tr_pc' # tr_pc =>
          /\ should_training_stop' = should_training_stop
          /\ IF global_step >= max_steps
             THEN should_log' /\ should_evaluate' /\ should_save'
             ELSE UNCHANGED <<should_log, should_evaluate, should_save>>]_vars

\* The callback has just forced the three flags at the last step, which
\* the periodic schedule does not hit, after an earlier step below
\* max_steps.
C15_Witness ==
    /\ tr_pc = "maybe"
    /\ Registered("EvaluateAndSaveFinalStepCallback")
    /\ global_step = max_steps
    /\ global_step >= 2
    /\ global_step % eval_steps # 0
    /\ should_log /\ should_evaluate /\ should_save

(***************************************************************************)
(* C16, C17                                                                *)
(***************************************************************************)
\* the last completed step was evaluated, or a checkpoint was saved at it.
FinalStepHandled ==
    \/ log_history # <<>> /\ log_history[Len(log_history)].step = global_step
    \/ last_saved = Some(global_step)

\* C16: whenever the fine-tuning loop has terminated, at max_steps or
\* halted earlier by the time-limit guard, with or without validation
\* data, the last completed step was evaluated or saved as a checkpoint.
C16_FinalSaveAtTermination ==
    tr_pc = "trained" => FinalStepHandled

\* C17: when the time-limit guard has halted the loop before max_steps,
\* _fit does not raise, whatever eval_during_fine_tune is and whether or
\* not an evaluation was scheduled before the halt.
C17_HaltedFitCompletes ==
    (train_began_at # None /\ global_step < max_steps) =>
        tr_pc # "key_error"

DistinctSource ==
    \A i, j \in DOMAIN source : source[i] = source[j] => i = j

\* C19 as stated: with a buffer of B >= 1 elements, before the source is
\* exhausted, an emission has needed B + 1 elements read, and the element
\* emitted in a step is never the one read in that step (sources of
\* distinct elements, where the two can be told apart).
C19_EmitThenInsert ==
    /\ [](wrapped /\ shuffle_buffer_size >= 1 /\ sh_pc \in {"loop", "pop"}
            /\ emitted # <<>> => src_pos >= shuffle_buffer_size + 1)
    /\ [][wrapped /\ shuffle_buffer_size >= 1 /\ sh_pc = "pop"
            /\ DistinctSource =>
              emitted' # Append(emitted, source[src_pos])]_vars

\* C19, amended: the element read is appended first and the pop is made
\* from the buffer that holds it: at the pop the buffer has exactly B
\* elements, the last of them the one just read; between steps it has
\* min(read, B - 1) elements, all the others read were emitted, and an
\* emission has needed only B elements read.
C19_InsertThenEmit ==
    wrapped /\ shuffle_buffer_size >= 1 /\ sh_pc \in {"loop", "pop"} =>
        /\ sh_pc = "pop" =>
              /\ Len(shuffle_buffer) = shuffle_buffer_size
              /\ shuffle_buffer[Len(shuffle_buffer)] = source[src_pos]
        /\ sh_pc = "loop" =>
              Len(shuffle_buffer) = Min(src_pos, shuffle_buffer_size - 1)
        /\ Len(emitted) = src_pos - Len(shuffle_buffer)
        /\ emitted # <<>> => src_pos >= shuffle_buffer_size

\* The first emission came when exactly B = 2 elements had been read, and
\* it was the element read in that very step.
C19_Witness ==
    /\ wrapped /\ shuffle_buffer_size = 2
    /\ sh_pc = "loop"
    /\ src_pos = 2
    /\ Len(source) >= 3
    /\ DistinctSource
    /\ emitted = <<source[2]>>
    /\ shuffle_buffer = <<source[1]>>

(***************************************************************************)
(* C20                                                                     *)
(***************************************************************************)
\* the batches yielded after the deadline start_time + seconds had passed.
LateYields ==
    {k \in DOMAIN yield_log : yield_log[k] - start_time > Get(seconds)}

\* C20: with a time limit, at most one batch is yielded after the
\* deadline has passed, and once a check after a batch has found the
\* deadline exceeded no batch is yielded any more: the batch checked is
\* the last one yielded and the loader cannot yield again.
C20_OverrunAtMostOneBatch ==
    seconds # None =>
        /\ Cardinality(LateYields) <= 1
        /\ \A j \in DOMAIN check_log :
              check_log[j].raised =>
                  /\ Len(yield_log) = j
                  /\ ~ENABLED LdYield

\* The deadline passed between a check and the next fetch: that batch, not
\* the first one, was still yielded, the check after it raised, and items
\* were left over.
C20_Witness ==
    /\ seconds # None
    /\ ld_pc = "raised"
    /\ Len(yield_log) >= 2
    /\ LateYields = {Len(yield_log)}
    /\ next_idx < num_items

\* C21: for every series collection, of any total number of observations,
\* the offset array has num_series + 1 entries, starts at 0, never
\* decreases, consecutive offsets differ by the length of the series
\* between them, and __len__ returns num_series.
C21_RaggedIndexInvariant ==
    /\ Len(ix_indptr) = Len(sizes) + 1
    /\ At(ix_indptr, 0) = 0
    /\ \A i \in 0..(Len(sizes) - 1) :
          /\ At(ix_indptr, i) <= At(ix_indptr, i + 1)
          /\ At(ix_indptr, i + 1) - At(ix_indptr, i) = At(sizes, i)
    /\ IxLen = Len(sizes)

\* C22: the loader's callback runs exactly once per batch the consumer has
\* finished with: each run comes after the consumer has processed batch k
\* and asked for the next item, and before batch k+1 is fetched; it never
\* runs before the first batch is yielded; and as long as the consumer has
\* not asked for the item after batch k, the callback for batch k has not
\* run and cannot run.
C22_CallbackOncePerBatch ==
    /\ [](/\ Len(check_log) =
                 (IF ld_pc \in {"body", "resume"} THEN yielded - 1 ELSE yielded)
          /\ ld_pc = "body" => ~ENABLED (LdCheckPass \/ LdCheckRaise))
    /\ [][/\ check_log' # check_log =>
                 /\ ld_pc = "resume"
                 /\ Len(batch_means) = yielded
                 /\ Len(check_log') = yielded
                 /\ yielded' = yielded
          /\ yielded' # yielded =>
                 /\ Len(check_log) = yielded
                 /\ Len(batch_means) = yielded]_vars

\* A call over three batches returned: three yields, three callback runs.
C22_Witness ==
    /\ ld_pc = "returned"
    /\ seconds # None
    /\ yielded = 3
    /\ Len(check_log) = 3

\* C23: with a buffer size B >= 1 the buffer never holds more than B
\* elements; right after every emission made inside the loop over the
\* source it holds exactly B - 1; and an element leaves the buffer only by
\* being emitted: in a step that emits nothing the buffer keeps all it had.
C23_BufferBound ==
    /\ [](wrapped /\ shuffle_buffer_size >= 1 =>
              Len(shuffle_buffer) <= shuffle_buffer_size)
    /\ [][wrapped /\ shuffle_buffer_size >= 1 =>
              /\ (sh_pc = "pop" /\ emitted' # emitted) =>
                    Len(shuffle_buffer') = shuffle_buffer_size - 1
              /\ emitted' = emitted =>
                    /\ Len(shuffle_buffer') >= Len(shuffle_buffer)
                    /\ SubSeq(shuffle_buffer', 1, Len(shuffle_buffer))
                          = shuffle_buffer
              /\ emitted' # emitted =>
                    /\ Len(emitted') = Len(emitted) + 1
                    /\ Len(shuffle_buffer') = Len(shuffle_buffer) - 1]_vars

\* A buffer of size 3 was full, an emission inside the loop left 2 elements
\* in it, and the source had more to give.
C23_Witness ==
    /\ wrapped /\ shuffle_buffer_size = 3
    /\ sh_pc = "loop"
    /\ Len(emitted) = 1
    /\ Len(shuffle_buffer) = 2
    /\ src_pos < Len(source)

\* C24: when _predict returns, the K series were processed in
\* ceil(K / b) batches, batch j holding the series j*b .. min((j+1)*b, K) - 1
\* in input order, and the forecast is the concatenation of the batch
\* outputs in that order: every series exactly once, in input order.
C24_BatchesCoverInOrder ==
    ld_pc = "returned" =>
        LET K == num_items
            b == batch_size
        IN  /\ Len(batch_means) = (K + b - 1) \div b
            /\ yielded = Len(batch_means)
            /\ \A j \in 0..(Len(batch_means) - 1) :
                  At(batch_means, j) =
                      [i \in 1..(Min((j + 1) * b, K) - j * b) |-> j * b + i - 1]
            /\ forecast = Some([i \in 1..K |-> i - 1])

\* Three series in batches of two: a full batch and a shorter last one.
C24_Witness ==
    /\ ld_pc = "returned"
    /\ num_items = 3
    /\ batch_size = 2
    /\ batch_means = <<<<0, 1>>, <<2>>>>

\* C25: the callback also runs after the last batch. A forecast is
\* returned only when there was a check after every batch, the last one
\* included, and all of them passed; after the last batch nothing is
\* returned before the check, and when the time elapsed exceeds the limit
\* at that check it raises: the call ends with the exception and no
\* forecast although every batch was processed.
C25_FinalCheckDecides ==
    /\ forecast # None =>
          /\ ld_pc = "returned"
          /\ Len(check_log) = Len(batch_means)
          /\ \A k \in DOMAIN check_log : ~check_log[k].raised
    /\ (ld_pc = "resume" /\ next_idx >= num_items) =>
          /\ Len(check_log) = Len(batch_means) - 1
          /\ ~ENABLED LdReturn
          /\ Expired(seconds, now - start_time) =>
                /\ ~ENABLED LdCheckPass
                /\ ENABLED LdCheckRaise
    /\ ld_pc = "raised" => forecast = None /\ ~ENABLED LdReturn

\* Both batches of a call were processed, the check after the first one
\* passed, the one after the last raised: no forecast.
C25_Witness ==
    /\ ld_pc = "raised"
    /\ next_idx >= num_items
    /\ yielded = 2
    /\ Len(batch_means) = 2
    /\ Len(check_log) = 2
    /\ ~check_log[1].raised
    /\ check_log[2].raised
    /\ forecast = None

\* C26 as stated: in training mode, when no series has prediction_length
\* observations (the empty collection included), a request for the next
\* window never returns a window, never ends the stream and never raises.
C26_CyclesForever ==
    LongEnough = {} =>
        /\ pulled = None
        /\ sm_pc \notin {"exhausted", "idle_error"}

\* C26, amended: when no series has prediction_length observations, no
\* window is ever returned and the stream never signals exhaustion; over
\* the empty collection the request neither ends nor raises (the source is
\* cycled for ever), over a non-empty one the splitter's idle guard raises.
C26_CyclesOrIdleRaises ==
    /\ [](LongEnough = {} =>
            /\ pulled = None /\ pending = <<>> /\ sm_pc # "exhausted"
            /\ ft_lengths = <<>> =>
                  /\ sm_pc # "idle_error"
                  /\ sm_pc = "iterating" =>
                        ENABLED StWrap /\ ~ENABLED StVisit)
    /\ <>(LongEnough # {} \/ ft_lengths = <<>> \/ sm_pc = "idle_error")

\* A single series, too short, was cycled into a second pass: the guard
\* raised, no window was ever received.
C26_Witness ==
    /\ Len(ft_lengths) = 1
    /\ LongEnough = {}
    /\ sm_pc = "idle_error"
    /\ pulled = None
    /\ passes >= 1

\* C27: with a consumer that keeps pulling, every element the
\* pseudo-shuffle reads is eventually emitted: over a finite source without
\* any further assumption (the iteration ends with all of the source
\* emitted); over a source that never ends, under fairness of the random
\* index. There, with a buffer size of 2 or more, every pop can pick
\* another element than a given buffered one, so nothing but the draw makes
\* that element leave.
C27_ReadEventuallyEmitted ==
    /\ (sh_pc # "idle") => <>(sh_pc = "done" /\ SameMultiset(emitted, source))
    /\ (ub_followed = "buffered") ~> (ub_followed = "emitted")
    /\ [](ub_pc = "pop" /\ ub_followed = "buffered" =>
            (ub_size >= 2 <=> ENABLED UbPopOther))

\* The statement of C27 for a source that never ends without the fairness
\* of the random index: the followed element leaves the buffer anyway.
C27_EmittedWithoutFairness ==
    (ub_followed = "buffered") ~> (ub_followed = "emitted")

\* Over the training stream an element stayed in a buffer of size 3 while
\* two elements read after it were emitted, and was then emitted itself.
C27_Witness ==
    /\ ub_size = 3
    /\ ub_followed = "emitted"
    /\ ub_overtaken = 2

(***************************************************************************)
(* C28                                                                     *)
(***************************************************************************)
\* _fit has passed its checkpoint selection.
Selected == tr_pc \in {"saved", "reverted", "returned", "loaded"}

\* the fine-tuned checkpoint is on disk and the fine-tuned model is the one
\* in use: the pipeline in memory, or after load the path it is read from.
FineTunedKept ==
    /\ fine_tuned_ckpt
    /\ IF tr_pc = "loaded" THEN model_path = "fine-tuned-ckpt"
       ELSE model_pipeline = "fine_tuned"

\* no fine-tuned checkpoint is on disk and the pretrained model is in use.
PretrainedRestored ==
    /\ ~fine_tuned_ckpt
    /\ IF tr_pc = "loaded" THEN model_path = "pretrained"
       ELSE model_pipeline = "pretrained"

\* C28: once _fit has passed its checkpoint selection, with validation
\* data the loss compared is the smallest logged eval_loss under
\* eval_during_fine_tune (otherwise the one evaluated after training), the
\* zero-shot loss was evaluated, the fine-tuned checkpoint is saved and
\* the fine-tuned model kept exactly when that loss is less than or equal
\* to the zero-shot loss, and otherwise no checkpoint is written and the
\* pretrained model is restored; without validation data the fine-tuned
\* checkpoint is always saved and kept.
C28_KeptIffNotWorse ==
    Selected =>
        /\ val_data =>
              /\ zero_shot_eval_loss # None
              /\ best_train_eval_loss # None
              /\ EvalDuringFineTune =>
                    Get(best_train_eval_loss) = MinLoss(log_history)
              /\ FineTunedKept <=>
                    Get(best_train_eval_loss) <= Get(zero_shot_eval_loss)
              /\ Get(best_train_eval_loss) > Get(zero_shot_eval_loss) =>
                    PretrainedRestored
        /\ ~val_data => FineTunedKept

\* a fine-tuned model that is exactly as good as the zero-shot one, after
\* two logged evaluations, has been saved and is the one load points at.
C28_Witness ==
    /\ tr_pc = "loaded"
    /\ EvalDuringFineTune
    /\ Len(log_history) >= 2
    /\ Get(best_train_eval_loss) = Get(zero_shot_eval_loss)
    /\ model_path = "fine-tuned-ckpt"

(***************************************************************************)
(* C29                                                                     *)
(***************************************************************************)
\* C29: when _fit has returned, the stored inference budget is None if
\* time_limit was None and time_limit minus the time _fit took otherwise,
\* negative when _fit overran the limit; a score_and_cache_oof call made
\* then is limited by the stored budget, and under a negative one it
\* never returns a forecast, processes no second batch, raises at its
\* first check after a batch and only there, having processed exactly one
\* batch; a predict call given no time_limit has no limit and never
\* raises, whatever the stored budget.
C29_BudgetIsWhatIsLeft ==
    /\ tr_pc = "returned" =>
          /\ time_limit = None => self_time_limit = None
          /\ time_limit # None =>
                /\ self_time_limit = Some(Get(time_limit) - clock)
                /\ clock > Get(time_limit) => Get(self_time_limit) < 0
    /\ tr_pc = "score_and_cache_oof" =>
          /\ seconds = self_time_limit
          /\ (seconds # None /\ Get(seconds) < 0) =>
                /\ yielded <= 1
                /\ Len(batch_means) <= 1
                /\ Len(check_log) <= 1
                /\ forecast = None
                /\ ld_pc # "returned"
                /\ ld_pc = "resume" =>
                      ENABLED LdCheckRaise /\ ~ENABLED LdCheckPass
                /\ check_log # <<>> => check_log[1].raised /\ ld_pc = "raised"
                /\ ld_pc = "raised" => yielded = 1 /\ Len(batch_means) = 1
                /\ num_items >= 1 => ld_pc # "value_error"
    /\ tr_pc = "predict" =>
          /\ seconds = None
          /\ ld_pc # "raised"
          /\ \A i \in DOMAIN check_log : ~check_log[i].raised

\* _fit overran its limit; the out-of-fold prediction over three series or
\* more, one per batch, raised after its first batch with no time spent.
C29_Witness ==
    /\ tr_pc = "score_and_cache_oof"
    /\ self_time_limit # None
    /\ Get(self_time_limit) < 0
    /\ num_items >= 3
    /\ batch_size = 1
    /\ ld_pc = "raised"
    /\ yielded = 1
    /\ now = 0

====
